---------------------------- MODULE Spec2Model ----------------------------
(***************************************************************************)
(* GuaBoot kernel loaders of GuardBSD: the BIOS main loader                *)
(* (boot/guaboot/loader/loader.c, 32-bit), the BIOS stage-2 loader         *)
(* (boot/guaboot/bios/guaboot2_complete.c, 32-bit) and the UEFI loader     *)
(* (boot/guaboot/efi/guaboot_complete.c, 64-bit).                          *)
(*                                                                         *)
(* Numbers.  TLC's integers stop at 2^31-1, so                             *)
(*   - a uint64_t is a tuple of four 16-bit limbs, most significant first: *)
(*     0x0000000100001000 is <<0, 1, 0, 4096>>; the arithmetic below is    *)
(*     exact modulo 2^64 and a cast to a 32-bit pointer clears the two top *)
(*     limbs;                                                              *)
(*   - a uint32_t that is only xor-ed and shifted (the CRC register) is    *)
(*     the set of its one bits, a subset of 0..31.                         *)
(* Memory is byte-addressed and sparse: mem holds the bytes written so     *)
(* far, every other address still holds what it held before the loader     *)
(* ran (MemBefore).                                                        *)
(***************************************************************************)
EXTENDS Integers, Sequences, FiniteSets, TLC

\* ------------------------------------------------------------------------
\* 64-bit and 32-bit unsigned arithmetic on 16-bit limbs
\* ------------------------------------------------------------------------
LimbBase == 2^16
LimbMax  == LimbBase - 1

\* the uint64_t with the given 32-bit halves, each half written as two limbs
U64(a3, a2, a1, a0) == <<a3, a2, a1, a0>>
\* a small natural (below 2^31) as a uint64_t
FromNat(n) == <<0, 0, n \div LimbBase, n % LimbBase>>
Zero64 == <<0, 0, 0, 0>>
Ones64 == <<LimbMax, LimbMax, LimbMax, LimbMax>>

\* a + b modulo 2^64
Add64(a, b) ==
    LET s0 == a[4] + b[4]
        s1 == a[3] + b[3] + (s0 \div LimbBase)
        s2 == a[2] + b[2] + (s1 \div LimbBase)
        s3 == a[1] + b[1] + (s2 \div LimbBase)
    IN  <<s3 % LimbBase, s2 % LimbBase, s1 % LimbBase, s0 % LimbBase>>

\* a - b modulo 2^64
Sub64(a, b) ==
    LET d0 == a[4] - b[4]
        w0 == IF d0 < 0 THEN 1 ELSE 0
        d1 == a[3] - b[3] - w0
        w1 == IF d1 < 0 THEN 1 ELSE 0
        d2 == a[2] - b[2] - w1
        w2 == IF d2 < 0 THEN 1 ELSE 0
        d3 == a[1] - b[1] - w2
    IN  <<d3 % LimbBase, d2 % LimbBase, d1 % LimbBase, d0 % LimbBase>>

\* a < b, unsigned
Lt64(a, b) ==
    \/ a[1] < b[1]
    \/ a[1] = b[1] /\ a[2] < b[2]
    \/ a[1] = b[1] /\ a[2] = b[2] /\ a[3] < b[3]
    \/ a[1] = b[1] /\ a[2] = b[2] /\ a[3] = b[3] /\ a[4] < b[4]

Le64(a, b) == a = b \/ Lt64(a, b)

\* (uint32_t)a, zero-extended again
Trunc32(a) == <<0, 0, a[3], a[4]>>

\* a + n modulo 2^32, for a 32-bit pointer a and a byte offset n
Add32(a, n) == Trunc32(Add64(a, n))

\* ------------------------------------------------------------------------
\* CRC register: a uint32_t as the set of its one bits
\* ------------------------------------------------------------------------
Bits32 == 0..31
BitXor(a, b) == {k \in Bits32 : (k \in a) # (k \in b)}
Shr1(a) == {k \in 0..30 : (k + 1) \in a}
Shl1(a) == {k \in 1..31 : (k - 1) \in a}
ByteBits(b) == {k \in 0..7 : (b \div (2^k)) % 2 = 1}
\* the two 16-bit halves <<high, low>> of a register value
RECURSIVE BitsValue(_)
BitsValue(s) == IF s = {} THEN 0
                ELSE LET k == CHOOSE x \in s : TRUE
                     IN  2^k + BitsValue(s \ {k})
Halves(s) == << BitsValue({k - 16 : k \in {x \in s : x >= 16}}),
                BitsValue({x \in s : x < 16}) >>

\* 0xEDB88320: 1110 1101 1011 1000 1000 0011 0010 0000
CRC_POLY == {31, 30, 29, 27, 26, 24, 23, 21, 20, 19, 15, 9, 8, 5}
\* 0xFFFFFFFF
CRC_ONES == Bits32

\* a pass with the polynomial left out: crc >>= 1
CrcShiftNoPoly(crc) == Shr1(crc)
\* one pass of the inner loop body: mask = 0 - (crc & 1); crc = (crc >> 1) ^ (POLY & mask)
CrcShift(crc) == IF 0 \in crc THEN BitXor(Shr1(crc), CRC_POLY) ELSE Shr1(crc)

\* for (b = 0; b < 8; b++) ...;  st holds the loop variables crc and b
RECURSIVE CrcBitLoop(_)
CrcBitLoop(st) ==
    IF st.b = 8 THEN st.crc ELSE CrcBitLoop([crc |-> CrcShift(st.crc), b |-> st.b + 1])

\* crc ^= data[i]; for (b = 0; b < 8; b++) ...
CrcByte(crc, byte) == CrcBitLoop([crc |-> BitXor(crc, ByteBits(byte)), b |-> 0])

\* for (i = 0; i < len; i++) ...;  st holds the loop variables crc and i
RECURSIVE CrcLoop(_, _)
CrcLoop(st, data) ==
    IF st.i > Len(data) THEN st.crc
    ELSE CrcLoop([crc |-> CrcByte(st.crc, data[st.i]), i |-> st.i + 1], data)
\* the register after the bytes of data, starting from crc
CrcOver(crc, data) == CrcLoop([crc |-> crc, i |-> 1], data)

\* a register that starts at 0
CrcInitZero == {}
\* uint32_t crc = 0xFFFFFFFF
CrcInit == CRC_ONES
\* crc32_calc of loader.c, over the bytes data[1..Len(data)]
crc32_calc(data) == BitXor(CrcOver(CrcInit, data), CRC_ONES)

\* crc32 of guaboot2_complete.c
crc32_bios(data) == BitXor(CrcOver(CRC_ONES, data), CRC_ONES)

\* crc32 of efi/guaboot_complete.c
crc32_efi(data) == BitXor(CrcOver(CRC_ONES, data), CRC_ONES)


\* ------------------------------------------------------------------------
\* ELF constants and the images the loaders are given
\* ------------------------------------------------------------------------
ELFMAG0 == 127
ELFMAG1 == 69
ELFMAG2 == 76
ELFMAG3 == 70
ELFCLASS64 == 2
ELFDATA2LSB == 1
ET_EXEC == 2
ET_DYN == 3
EM_X86_64 == 62
PT_LOAD == 1
PT_DYNAMIC == 2

\* 0x00100000ULL, the 1 MiB line of load_kernel_from_memory
LOW_LIMIT == U64(0, 0, 16, 0)
\* 0x10000, the legacy load address used when *KERNEL_PHYS_PTR is 0
LEGACY_LOAD_ADDR == U64(0, 0, 1, 0)
\* (void *)0x200000, kernel_buffer of guaboot2_main
BIOS_KERNEL_BUFFER == U64(0, 0, 32, 0)

Variants == {"loader", "bios", "uefi"}

\* Bounds of the model.
MaxPhnum == 2        \* program headers per image
MaxCrcLen == 3       \* bytes per checksummed sequence of the CRC specification
DataOff == 4096      \* file offset of the first segment byte of the images
MaxSpan == 64        \* longest loaded range [min start, max end) of an image

\* The segment bytes of the image file, at file offsets DataOff, DataOff+1, ...
FileData == <<17, 34, 51, 68>>

Phdr(t, pa, off, fs, ms) ==
    [p_type |-> t, p_paddr |-> pa, p_offset |-> FromNat(DataOff + off),
     p_filesz |-> FromNat(fs), p_memsz |-> FromNat(ms)]

\* The program-header entries images are built from.
SegMenu ==
    { Phdr(PT_LOAD, U64(0, 0, 16, 0), 0, 1, 2),        \* [1M, 1M+2): 1 byte + 1 BSS
      Phdr(PT_LOAD, U64(0, 0, 16, 2), 1, 2, 2),        \* [1M+2, 1M+4)
      Phdr(PT_LOAD, U64(0, 0, 16, 5), 2, 1, 1),        \* [1M+5, 1M+6)
      Phdr(PT_LOAD, U64(0, 0, 16, 0), 1, 0, 0),        \* empty segment at 1M
      Phdr(PT_LOAD, U64(0, 0, 16, 0), 0, 2, 1),        \* filesz > memsz
      Phdr(PT_LOAD, U64(0, 0, 0, 4096), 0, 1, 1),      \* below 1 MiB
      Phdr(PT_LOAD, U64(0, 0, 32, DataOff), 2, 1, 2),  \* on the image in a buffer at 2M
      Phdr(PT_LOAD, U64(0, 1, 0, 4096), 0, 1, 1),      \* 2^32 + 0x1000
      Phdr(PT_LOAD, Ones64, 0, 0, 2),                  \* 2^64 - 1, end wraps to 1
      Phdr(PT_DYNAMIC, U64(0, 0, 0, 4096), 0, 1, 1) }  \* not loadable

RECURSIVE SeqsUpTo(_, _)
SeqsUpTo(S, n) ==
    IF n = 0 THEN {<<>>}
    ELSE LET shorter == SeqsUpTo(S, n - 1)
         IN  shorter \cup {Append(q, x) : q \in {r \in shorter : Len(r) = n - 1}, x \in S}

Loadable(ph) == {k \in 1..Len(ph) : ph[k].p_type = PT_LOAD}
SegEnd(p) == Add64(p.p_paddr, p.p_memsz)

ToNat(a) == a[3] * LimbBase + a[4]

\* minimum start and maximum end (modulo 2^64) over the loadable entries
MinStart(ph) ==
    LET k == CHOOSE x \in Loadable(ph) :
                 \A l \in Loadable(ph) : Le64(ph[x].p_paddr, ph[l].p_paddr)
    IN  ph[k].p_paddr
MaxEnd(ph) ==
    LET k == CHOOSE x \in Loadable(ph) :
                 \A l \in Loadable(ph) : Le64(SegEnd(ph[l]), SegEnd(ph[x]))
    IN  SegEnd(ph[k])
\* the loaded range [MinStart, MaxEnd) is not empty
RangeNonEmpty(ph) == Loadable(ph) # {} /\ Lt64(MinStart(ph), MaxEnd(ph))
RangeLen(ph) == Sub64(MaxEnd(ph), MinStart(ph))
SpanOK(ph) ==
    RangeNonEmpty(ph) =>
        /\ RangeLen(ph)[1] = 0 /\ RangeLen(ph)[2] = 0 /\ RangeLen(ph)[3] = 0
        /\ RangeLen(ph)[4] <= MaxSpan
\* some loadable entry lies below 1 MiB: loader.c refuses the image
HasLowSegment(ph) == \E k \in Loadable(ph) : Lt64(ph[k].p_paddr, LOW_LIMIT)

\* ELF headers: the identity bytes, e_type, e_machine and e_entry
Ehdr(m0, m3, cls, dat, typ, mach, entry) ==
    [e_ident |-> <<m0, ELFMAG1, ELFMAG2, m3, cls, dat>>,
     e_type |-> typ, e_machine |-> mach, e_entry |-> entry]
GoodEhdr(entry) ==
    Ehdr(ELFMAG0, ELFMAG3, ELFCLASS64, ELFDATA2LSB, ET_EXEC, EM_X86_64, entry)
EntryChoices == {U64(0, 0, 16, 0), Zero64, U64(0, 1, 0, 0), U64(0, 1, 16, 0)}
\* every combination of a right or wrong magic, class, endianness, type and machine
AllEhdrs ==
    { Ehdr(m[1], m[2], cls, dat, typ, mach, U64(0, 0, 16, 0)) :
        m \in {<<ELFMAG0, ELFMAG3>>, <<0, ELFMAG3>>, <<ELFMAG0, 0>>},
        cls \in {ELFCLASS64, 1},          \* 1: the 32-bit class
        dat \in {ELFDATA2LSB, 2},         \* 2: big-endian
        typ \in {ET_EXEC, ET_DYN},
        mach \in {EM_X86_64, 3} }         \* 3: i386
\* the headers of the segment-loading specification
LoadEhdrs ==
    {GoodEhdr(e) : e \in EntryChoices} \cup
    {Ehdr(0, ELFMAG3, ELFCLASS64, ELFDATA2LSB, ET_EXEC, EM_X86_64, U64(0, 0, 16, 0))}

\* ------------------------------------------------------------------------
\* State
\* ------------------------------------------------------------------------
VARIABLES
    variant,        \* which loader runs
    kernel_phys,    \* loader: *KERNEL_PHYS_PTR as stage 2 left it; uefi: the pool buffer
    ehdr, phdr,     \* the image's ELF header and program-header table
    fill,           \* the byte every untouched memory cell held before the loader ran
    pc,             \* position of the running loader
    mem,            \* the bytes written by the loader: address -> byte
    i,              \* loop index over the program headers
    load_base, load_end,      \* locals of load_kernel_from_memory
    kernel_crc32_value, kernel_load_base, kernel_load_size,  \* loader.c statics
    entry,          \* the entry address the load function returned
    entry_slot,     \* *KERNEL_ENTRY_SLOT
    bootinfo,       \* the boot record
    bi_writes,      \* the fields of the record in the order they were stored
    console,        \* error and warning lines printed so far
    verify_ret,     \* what the verifier returned in the running function
    ph_read,        \* the running function has read e_phoff / e_phnum / a phdr entry
    wrote,          \* addresses written by the segment loader
    fw_map,         \* the memory map the firmware returned
    e820_count,     \* bios: the static e820_count
    fw_calls,       \* uefi: the boot-service calls made so far, with their status
    hw,             \* processor and interrupt-controller registers
    pt,             \* loader.c: the arrays pml4, pdpt and pd
    steps,          \* the hardware-state steps executed so far, in order
    bootinfo_slot,  \* *BOOTINFO_PTR_SLOT
    kcall,          \* the arguments the kernel entry was called with
    crc_data, crc_out, crc_flip  \* the checksum specification: input, results, flipped bit

image_vars == <<variant, kernel_phys, ehdr, phdr, fill>>
load_vars == <<pc, mem, i, load_base, load_end, kernel_crc32_value, kernel_load_base,
               kernel_load_size, entry, entry_slot, bootinfo, bi_writes, console, verify_ret,
               ph_read, wrote, fw_map, e820_count, fw_calls>>
crc_vars == <<crc_data, crc_out, crc_flip>>
hw_vars == <<hw, pt, steps, bootinfo_slot, kcall>>
vars == <<image_vars, load_vars, crc_vars, hw_vars>>

\* ------------------------------------------------------------------------
\* Memory
\* ------------------------------------------------------------------------
\* where the ELF header of the image lies
ImageBase ==
    IF variant = "loader"
    THEN (IF Trunc32(kernel_phys) = Zero64 THEN LEGACY_LOAD_ADDR ELSE Trunc32(kernel_phys))
    ELSE IF variant = "bios" THEN BIOS_KERNEL_BUFFER
    ELSE kernel_phys

\* the byte at address a before the loader ran: the image file or fill
MemBefore(a) ==
    LET d == Sub64(a, Add64(ImageBase, FromNat(DataOff)))
    IN  IF d[1] = 0 /\ d[2] = 0 /\ d[3] = 0 /\ d[4] < Len(FileData)
        THEN FileData[d[4] + 1] ELSE fill

Read(m, a) == IF a \in DOMAIN m THEN m[a] ELSE MemBefore(a)
Write(m, a, v) == (a :> v) @@ m

\* a value cast to a pointer of the running loader: 32 bits wide but under UEFI
Ptr(v) == IF variant = "uefi" THEN v ELSE Trunc32(v)
PtrAdd(p, n) == Ptr(Add64(p, FromNat(n)))

\* the n bytes at p, p+1, ... as a sequence
Bytes(m, p, n) == [k \in 1..n |-> Read(m, PtrAdd(p, k - 1))]

\* ------------------------------------------------------------------------
\* Image Verifier
\* ------------------------------------------------------------------------
MSG_BAD_MAGIC == "[LOADER] ERROR: Invalid ELF magic"
MSG_UNSUPPORTED == "[LOADER] ERROR: Unsupported ELF format (expecting ET_EXEC x86_64)"

MagicOK(h) ==
    /\ h.e_ident[1] = ELFMAG0 /\ h.e_ident[2] = ELFMAG1
    /\ h.e_ident[3] = ELFMAG2 /\ h.e_ident[4] = ELFMAG3

\* validate_elf_header of loader.c: the line it prints, "" when the header passes
validate_elf_header_msg(h) ==
    IF ~MagicOK(h) THEN MSG_BAD_MAGIC
    ELSE IF \/ h.e_ident[5] # ELFCLASS64
            \/ h.e_ident[6] # ELFDATA2LSB
            \/ h.e_type # ET_EXEC
            \/ h.e_machine # EM_X86_64
         THEN MSG_UNSUPPORTED
         ELSE ""
validate_elf_header(h) == validate_elf_header_msg(h) = ""

\* a verifier that accepts every header
verify_elf_bios_any(h) == TRUE
\* verify_elf of guaboot2_complete.c
verify_elf_bios(h) ==
    IF ~MagicOK(h) THEN FALSE
    ELSE IF h.e_ident[5] # ELFCLASS64 THEN FALSE
    ELSE IF h.e_machine # EM_X86_64 THEN FALSE
    ELSE TRUE

\* verify_elf of efi/guaboot_complete.c
verify_elf_efi(h) ==
    IF ~MagicOK(h) THEN FALSE
    ELSE IF h.e_ident[5] # ELFCLASS64 THEN FALSE
    ELSE IF h.e_machine # EM_X86_64 THEN FALSE
    ELSE TRUE

\* ------------------------------------------------------------------------
\* Segment Loader: the copy and zero loops
\* ------------------------------------------------------------------------
\* for (j = 0; j < n; j++) dst[j] = src[j];  reads see the writes made before them;
\* st holds the memory m and the loop variable j
RECURSIVE CopyLoop(_, _, _, _)
CopyLoop(st, dst, src, n) ==
    IF st.j >= n THEN st.m
    ELSE CopyLoop([m |-> Write(st.m, PtrAdd(dst, st.j), Read(st.m, PtrAdd(src, st.j))),
                   j |-> st.j + 1], dst, src, n)

\* for (j = from; j < n; j++) dst[j] = 0;
RECURSIVE ZeroLoop(_, _, _)
ZeroLoop(st, dst, n) ==
    IF st.j >= n THEN st.m
    ELSE ZeroLoop([m |-> Write(st.m, PtrAdd(dst, st.j), 0), j |-> st.j + 1], dst, n)

\* the addresses dst[from .. n-1]
Touched(dst, from, n) == {PtrAdd(dst, j) : j \in from..(n - 1)}

\* loader.c 411-422: copy p_filesz bytes, then zero up to p_memsz
LoaderCopy(m, base, p) ==
    LET dst == Ptr(p.p_paddr)
        src == Ptr(Add64(base, p.p_offset))
    IN  ZeroLoop([m |-> CopyLoop([m |-> m, j |-> 0], dst, src, ToNat(p.p_filesz)),
                  j |-> ToNat(p.p_filesz)], dst, ToNat(p.p_memsz))
LoaderTouched(p) ==
    Touched(Ptr(p.p_paddr), 0, ToNat(p.p_filesz)) \cup
    Touched(Ptr(p.p_paddr), ToNat(p.p_filesz), ToNat(p.p_memsz))

\* ------------------------------------------------------------------------
\* loader.c
\* ------------------------------------------------------------------------
GBSD_MAGIC == 1112753223    \* 0x42534447
\* the boot record before any field is written: field name -> value
NoBootInfo == <<>>

\* sizeof(BootInfo) of loader.c: the field widths of the struct, in order
\* (LoaderBootInfoSizeNoPad: the record without its three pad fields)
LoaderBootInfoSizeNoPad == 4 + 4 + 4 + 4 + 8 + 8 + 8 + 8 + 4 + 8 + 4 + 8 + 8 + 4
LoaderBootInfoSize == 4 + 4 + 4 + 4 + 8 + 8 + 8 + 8 + 4 + 4 + 8 + 4 + 4 + 8 + 8 + 4 + 4

\* build_bootinfo 223-232 of loader.c: the two entries of boot_mmap
boot_mmap ==
    << [base |-> 0, length |-> 1048576, typ |-> 2, reserved |-> 0],
       [base |-> 1048576, length |-> 133169152, typ |-> 1, reserved |-> 0] >>
\* build_bootinfo 207-235 of loader.c: the stores to the record, in program order
LoaderFieldStores ==
    <<"magic", "version", "size", "kernel_crc32", "kernel_base", "kernel_size",
      "mem_lower", "mem_upper", "boot_device", "pad0", "cmdline", "mods_count", "pad1",
      "mods", "mmap", "mmap_count", "pad2">>
\* build_bootinfo of loader.c
build_bootinfo_loader ==
    [magic |-> GBSD_MAGIC, version |-> 1, size |-> LoaderBootInfoSize,
     kernel_crc32 |-> kernel_crc32_value,
     kernel_base |-> kernel_load_base, kernel_size |-> kernel_load_size,
     mem_lower |-> 640, mem_upper |-> 128 * 1024,
     boot_device |-> 0, mods_count |-> 0, mmap |-> boot_mmap, mmap_count |-> 2]

\* the addresses the link gives the statics of loader.c; the tables are 4096-aligned
LoaderLink == [bootinfo |-> 36864, gdt |-> 37120, pml4 |-> 40960, pdpt |-> 45056,
               pd |-> 49152]

\* the one-bits of a natural below 2^31, as bit positions
NatBits(n) == {k \in 0..30 : (n \div (2^k)) % 2 = 1}

\* outb(port, val)
outb(h, port, val) == [h EXCEPT !.port[port] = val]
\* masking that leaves out the second controller
disable_pic_master(h) == outb(outb(h, 33, 255), 128, 0)
\* disable_pic: outb(0x21, 0xFF); outb(0xA1, 0xFF); io_wait(), which is outb(0x80, 0)
disable_pic(h) == outb(outb(outb(h, 33, 255), 161, 255), 128, 0)

\* pml4[512], pdpt[512], pd[512]: an entry is the set of its one-bits
PT_ENTRIES == 512
PtIndex == 0..(PT_ENTRIES - 1)
PtZero == [pml4 |-> [k \in PtIndex |-> {}], pdpt |-> [k \in PtIndex |-> {}],
           pd |-> [k \in PtIndex |-> {}]]

\* the two links and the 512 leaves written over tables t
\* (0x200000 = 2097152, 0x83 = 131: present, writable, huge)
PtFill(t) ==
    LET t1 == [t EXCEPT !.pml4[0] = NatBits(LoaderLink.pdpt) \cup NatBits(3)]
        t2 == [t1 EXCEPT !.pdpt[0] = NatBits(LoaderLink.pd) \cup NatBits(3)]
    IN  [t2 EXCEPT !.pd = [k \in PtIndex |-> NatBits(k * 2097152) \cup NatBits(131)]]
\* address-space setup that does not clear the tables first
setup_identity_paging_noclear(t) == PtFill(t)
\* a clearing loop that stops one entry short (i < 511)
setup_identity_paging_short(t) ==
    PtFill([t EXCEPT !.pml4 = [k \in PtIndex |-> IF k < PT_ENTRIES - 1 THEN {} ELSE @[k]],
                     !.pdpt = [k \in PtIndex |-> IF k < PT_ENTRIES - 1 THEN {} ELSE @[k]],
                     !.pd = [k \in PtIndex |-> IF k < PT_ENTRIES - 1 THEN {} ELSE @[k]]])
\* setup_identity_paging: the clearing loop over the three arrays, then the entries
setup_identity_paging(t) ==
    PtFill([t EXCEPT !.pml4 = [k \in PtIndex |-> {}], !.pdpt = [k \in PtIndex |-> {}],
                     !.pd = [k \in PtIndex |-> {}]])

\* struct gdt_entry gdt[3]: null, 64-bit code, data
gdt ==
    << [limit_low |-> 0, base_low |-> 0, base_mid |-> 0, access |-> 0, gran |-> 0,
        base_hi |-> 0],
       [limit_low |-> 65535, base_low |-> 0, base_mid |-> 0, access |-> 154, gran |-> 160,
        base_hi |-> 0],
       [limit_low |-> 65535, base_low |-> 0, base_mid |-> 0, access |-> 146, gran |-> 160,
        base_hi |-> 0] >>
\* sizeof(struct gdt_entry), packed
GdtEntrySize == 2 + 2 + 1 + 1 + 1 + 1
\* struct gdt_ptr gdtp: limit = sizeof(gdt) - 1, base = gdt
gdtp == [limit |-> Len(gdt) * GdtEntrySize - 1, base |-> LoaderLink.gdt]

DATA_SELECTOR == 16        \* movw $0x10, %ax
STACK_TOP == 2097152       \* movl $0x200000, %esp
ENTRY64_LINEAR == 61440    \* 0x0000F000
\* a jump through the data selector 0x10
far_ptr_data == [offset |-> ENTRY64_LINEAR, selector |-> 16]
\* struct far_ptr target
far_ptr == [offset |-> ENTRY64_LINEAR, selector |-> 8]

\* bit 4 (page size extension) set in place of bit 5
EnablePAEWrongBit(cr4) == cr4 \cup {4}
\* cr4 |= (1 << 5)
EnablePAE(cr4) == cr4 \cup {5}
\* eax |= (1 << 8); eax |= (1 << 11)
EnableLME(efer) == efer \cup {8} \cup {11}
\* the paging bit stored over the register instead of or-ed into it
EnablePGAssign(cr0) == {31}
\* cr0 |= (1 << 31)
EnablePG(cr0) == cr0 \cup {31}

\* the registers when the loader starts: 32-bit protected mode, paging off; if_flag is
\* the interrupt flag; the registers no loader reads before writing are written as 0
HwReset(if_flag) ==
    [if_flag |-> if_flag, halted |-> FALSE,
     port |-> [p \in {33, 161, 128} |-> 0],
     gdtr |-> [limit |-> 0, base |-> 0],
     cs |-> 0, ds |-> 0, es |-> 0, ss |-> 0, esp |-> 0, rip |-> 0,
     cr0 |-> {0}, cr3 |-> 0, cr4 |-> {}, efer |-> {}]

\* a loader that goes on to the program headers whatever the verifier returned
L_ValidateSkipped ==
    /\ pc = "L_start"
    /\ verify_ret' = IF validate_elf_header(ehdr) THEN "pass" ELSE "fail"
    /\ pc' = "L_segments" /\ i' = 0 /\ load_base' = Ones64 /\ load_end' = Zero64
    /\ ph_read' = TRUE
    /\ UNCHANGED <<mem, kernel_crc32_value, kernel_load_base, kernel_load_size, entry,
                   entry_slot, bootinfo, bi_writes, console, wrote>>
    /\ UNCHANGED <<image_vars, crc_vars, hw_vars, fw_map, e820_count, fw_calls>>
\* load_kernel_from_memory 370-393: the verifier, then the program-header pointer
L_Validate ==
    /\ pc = "L_start"
    /\ IF validate_elf_header(ehdr)
       THEN /\ verify_ret' = "pass"
            /\ pc' = "L_segments" /\ i' = 0
            /\ load_base' = Ones64 /\ load_end' = Zero64
            /\ ph_read' = TRUE
            /\ UNCHANGED console
       ELSE /\ verify_ret' = "fail"
            /\ console' = console \o <<validate_elf_header_msg(ehdr),
                                       "[LOADER] ERROR: Invalid kernel ELF",
                                       "[LOADER] ERROR: Failed to load kernel">>
            /\ pc' = "L_hang"
            /\ UNCHANGED <<i, load_base, load_end, ph_read>>
    /\ UNCHANGED <<mem, kernel_crc32_value, kernel_load_base, kernel_load_size, entry,
                   entry_slot, bootinfo, bi_writes, wrote>>
    /\ UNCHANGED <<image_vars, crc_vars, hw_vars, fw_map, e820_count, fw_calls>>

\* tracking that keeps the last segment's start instead of the least one
LoadBaseLast(lb, p) == p.p_paddr
\* load_kernel_from_memory 402-404: if (p_paddr < load_base) load_base = p_paddr
UpdateLoadBase(lb, p) == IF Lt64(p.p_paddr, lb) THEN p.p_paddr ELSE lb
\* load_kernel_from_memory 424-427: if (seg_end > load_end) load_end = seg_end
UpdateLoadEnd(le, p) == IF Lt64(le, SegEnd(p)) THEN SegEnd(p) ELSE le

\* a loop that skips a segment below 1 MiB and goes on instead of failing the load
L_LoadSegmentSkipLow ==
    /\ pc = "L_segments" /\ i < Len(phdr)
    /\ LET p == phdr[i + 1] IN
       IF p.p_type # PT_LOAD \/ Lt64(p.p_paddr, LOW_LIMIT)
       THEN /\ i' = i + 1
            /\ UNCHANGED <<pc, mem, load_base, load_end, console, wrote>>
       ELSE /\ load_base' = UpdateLoadBase(load_base, p)
            /\ mem' = LoaderCopy(mem, ImageBase, p)
            /\ wrote' = wrote \cup LoaderTouched(p)
            /\ load_end' = UpdateLoadEnd(load_end, p)
            /\ i' = i + 1
            /\ UNCHANGED <<pc, console>>
    /\ UNCHANGED <<kernel_crc32_value, kernel_load_base, kernel_load_size, entry,
                   entry_slot, bootinfo, bi_writes, verify_ret, ph_read>>
    /\ UNCHANGED <<image_vars, crc_vars, hw_vars, fw_map, e820_count, fw_calls>>
\* load_kernel_from_memory 396-429: one pass of the loop over the program headers
L_LoadSegment ==
    /\ pc = "L_segments" /\ i < Len(phdr)
    /\ LET p == phdr[i + 1] IN
       IF p.p_type # PT_LOAD
       THEN /\ i' = i + 1
            /\ UNCHANGED <<pc, mem, load_base, load_end, console, wrote>>
       ELSE IF Lt64(p.p_paddr, LOW_LIMIT)
       THEN /\ console' = console \o <<"[LOADER] ERROR: Refusing to load below 1MiB",
                                       "[LOADER] ERROR: Failed to load kernel">>
            /\ pc' = "L_hang"
            /\ UNCHANGED <<i, mem, load_base, load_end, wrote>>
       ELSE /\ load_base' = UpdateLoadBase(load_base, p)
            /\ mem' = LoaderCopy(mem, ImageBase, p)
            /\ wrote' = wrote \cup LoaderTouched(p)
            /\ load_end' = UpdateLoadEnd(load_end, p)
            /\ i' = i + 1
            /\ UNCHANGED <<pc, console>>
    /\ UNCHANGED <<kernel_crc32_value, kernel_load_base, kernel_load_size, entry,
                   entry_slot, bootinfo, bi_writes, verify_ret, ph_read>>
    /\ UNCHANGED <<image_vars, crc_vars, hw_vars, fw_map, e820_count, fw_calls>>

\* load_kernel_from_memory 431-450: range, checksum and the returned entry pointer
L_LoadFinish ==
    /\ pc = "L_segments" /\ i = Len(phdr)
    /\ IF load_base # Ones64 /\ Lt64(load_base, load_end)
       THEN /\ kernel_load_base' = load_base
            /\ kernel_load_size' = Sub64(load_end, load_base)
            /\ kernel_crc32_value' =
                   crc32_calc(Bytes(mem, Ptr(load_base),
                                    ToNat(Trunc32(Sub64(load_end, load_base)))))
       ELSE /\ kernel_load_base' = Zero64
            /\ kernel_load_size' = Zero64
            /\ kernel_crc32_value' = {}
    /\ entry' = Ptr(ehdr.e_entry)
    /\ pc' = "L_returned"
    /\ UNCHANGED <<mem, i, load_base, load_end, entry_slot, bootinfo, bi_writes, console,
                   verify_ret, ph_read, wrote>>
    /\ UNCHANGED <<image_vars, crc_vars, hw_vars, fw_map, e820_count, fw_calls>>

\* load_kernel 462-471: the NULL check, then the entry slot
L_LoadKernel ==
    /\ pc = "L_returned"
    /\ IF entry = Zero64
       THEN /\ console' = Append(console, "[LOADER] ERROR: Failed to load kernel")
            /\ pc' = "L_hang"
            /\ UNCHANGED entry_slot
       ELSE /\ entry_slot' = entry
            /\ pc' = "L_bootinfo"
            /\ UNCHANGED console
    /\ UNCHANGED <<mem, i, load_base, load_end, kernel_crc32_value, kernel_load_base,
                   kernel_load_size, entry, bootinfo, bi_writes, verify_ret, ph_read, wrote>>
    /\ UNCHANGED <<image_vars, crc_vars, hw_vars, fw_map, e820_count, fw_calls>>

\* build_bootinfo 207-235: the fields of the record and the two map entries
L_BuildBootInfo ==
    /\ pc = "L_bootinfo"
    /\ bootinfo' = build_bootinfo_loader
    /\ bi_writes' = bi_writes \o LoaderFieldStores
    /\ pc' = "L_publish"
    /\ UNCHANGED <<mem, i, load_base, load_end, kernel_crc32_value, kernel_load_base,
                   kernel_load_size, entry, entry_slot, console, verify_ret, ph_read,
                   wrote>>
    /\ UNCHANGED <<image_vars, crc_vars, hw_vars, fw_map, e820_count, fw_calls>>

\* build_bootinfo 237: *BOOTINFO_PTR_SLOT = &bootinfo
L_PublishBootInfo ==
    /\ pc = "L_publish"
    /\ bootinfo_slot' = FromNat(LoaderLink.bootinfo)
    /\ pc' = "L_kernel_loaded"
    /\ UNCHANGED <<hw, pt, steps, kcall>>
    /\ UNCHANGED <<image_vars, crc_vars, fw_map, e820_count, fw_calls>>
    /\ UNCHANGED <<mem, i, load_base, load_end, kernel_crc32_value, kernel_load_base,
                   kernel_load_size, entry, entry_slot, bootinfo, bi_writes, console, verify_ret,
                   ph_read, wrote>>

\* ------------------------------------------------------------------------
\* loader.c: interrupt masking, address-space setup and the mode transition
\* ------------------------------------------------------------------------
\* what loader.c writes after the checksum: KERNEL_ENTRY_SLOT (0x7004) and
\* BOOTINFO_PTR_SLOT (0x7010), 8 bytes each, the static record and the three
\* page tables of 512 entries of 8 bytes
LoaderHandoffRegions ==
    { [lo |-> 28676, n |-> 8], [lo |-> 28688, n |-> 8],
      [lo |-> LoaderLink.bootinfo, n |-> LoaderBootInfoSize],
      [lo |-> LoaderLink.pml4, n |-> PT_ENTRIES * 8],
      [lo |-> LoaderLink.pdpt, n |-> PT_ENTRIES * 8],
      [lo |-> LoaderLink.pd, n |-> PT_ENTRIES * 8] }
\* what every action of loader_main after load_kernel leaves alone
L_rest == <<mem, i, load_base, load_end, kernel_crc32_value, kernel_load_base,
            kernel_load_size, entry, entry_slot, bootinfo, bi_writes, verify_ret, ph_read, wrote,
            fw_map, e820_count, fw_calls, bootinfo_slot, kcall>>

\* loader_main 503-506: load_modules only prints; disable_pic masks both controllers
L_DisablePic ==
    /\ pc = "L_kernel_loaded"
    /\ hw' = disable_pic(hw)
    /\ steps' = Append(steps, "pic")
    /\ pc' = "L_entry_check"
    /\ UNCHANGED <<pt, console>>
    /\ UNCHANGED <<image_vars, crc_vars, L_rest>>

\* loader_main 512-516: the entry pointer read back from the slot
L_CheckEntrySlot ==
    /\ pc = "L_entry_check"
    /\ IF Ptr(entry_slot) = Zero64
       THEN /\ console' = Append(console, "[LOADER] ERROR: No kernel entry point found")
            /\ pc' = "L_hang"
       ELSE pc' = "L_paging" /\ UNCHANGED console
    /\ UNCHANGED <<hw, pt, steps>>
    /\ UNCHANGED <<image_vars, crc_vars, L_rest>>

\* loader_main 523
L_SetupPaging ==
    /\ pc = "L_paging"
    /\ pt' = setup_identity_paging(pt)
    /\ steps' = Append(steps, "tables")
    /\ pc' = "L_lgdt"
    /\ UNCHANGED <<hw, console>>
    /\ UNCHANGED <<image_vars, crc_vars, L_rest>>

\* enable_long_mode_and_jump 293: lgdt gdtp
L_Lgdt ==
    /\ pc = "L_lgdt"
    /\ hw' = [hw EXCEPT !.gdtr = gdtp]
    /\ steps' = Append(steps, "lgdt")
    /\ pc' = "L_segs"
    /\ UNCHANGED <<pt, console>>
    /\ UNCHANGED <<image_vars, crc_vars, L_rest>>

\* enable_long_mode_and_jump 296-303: ds, es and ss from selector 0x10
L_LoadDataSegments ==
    /\ pc = "L_segs"
    /\ hw' = [hw EXCEPT !.ds = DATA_SELECTOR, !.es = DATA_SELECTOR, !.ss = DATA_SELECTOR]
    /\ steps' = Append(steps, "segs")
    /\ pc' = "L_stack"
    /\ UNCHANGED <<pt, console>>
    /\ UNCHANGED <<image_vars, crc_vars, L_rest>>

\* enable_long_mode_and_jump 306: movl $0x200000, %esp
L_SetStack ==
    /\ pc = "L_stack"
    /\ hw' = [hw EXCEPT !.esp = STACK_TOP]
    /\ pc' = "L_pae"
    /\ UNCHANGED <<pt, steps, console>>
    /\ UNCHANGED <<image_vars, crc_vars, L_rest>>

\* enable_long_mode_and_jump 311-314: cr4 |= 1 << 5
L_EnablePAE ==
    /\ pc = "L_pae"
    /\ hw' = [hw EXCEPT !.cr4 = EnablePAE(hw.cr4)]
    /\ steps' = Append(steps, "pae")
    /\ pc' = "L_cr3"
    /\ UNCHANGED <<pt, console>>
    /\ UNCHANGED <<image_vars, crc_vars, L_rest>>

\* enable_long_mode_and_jump 319: mov pml4, %cr3
L_LoadCr3 ==
    /\ pc = "L_cr3"
    /\ hw' = [hw EXCEPT !.cr3 = LoaderLink.pml4]
    /\ steps' = Append(steps, "cr3")
    /\ pc' = "L_efer"
    /\ UNCHANGED <<pt, console>>
    /\ UNCHANGED <<image_vars, crc_vars, L_rest>>

\* enable_long_mode_and_jump 324-328: rdmsr, eax |= LME | NXE, wrmsr
L_EnableLME ==
    /\ pc = "L_efer"
    /\ hw' = [hw EXCEPT !.efer = EnableLME(hw.efer)]
    /\ steps' = Append(steps, "efer")
    /\ pc' = "L_pg"
    /\ UNCHANGED <<pt, console>>
    /\ UNCHANGED <<image_vars, crc_vars, L_rest>>

\* enable_long_mode_and_jump 333-336: cr0 |= 1 << 31
L_EnablePG ==
    /\ pc = "L_pg"
    /\ hw' = [hw EXCEPT !.cr0 = EnablePG(hw.cr0)]
    /\ steps' = Append(steps, "pg")
    /\ pc' = "L_ljmp"
    /\ UNCHANGED <<pt, console>>
    /\ UNCHANGED <<image_vars, crc_vars, L_rest>>

\* enable_long_mode_and_jump 341-345: ljmp *target
L_FarJump ==
    /\ pc = "L_ljmp"
    /\ hw' = [hw EXCEPT !.cs = far_ptr.selector, !.rip = far_ptr.offset]
    /\ steps' = Append(steps, "ljmp")
    /\ pc' = "L_stub"
    /\ UNCHANGED <<pt, console>>
    /\ UNCHANGED <<image_vars, crc_vars, L_rest>>

\* ------------------------------------------------------------------------
\* guaboot2_complete.c (BIOS stage 2)
\* ------------------------------------------------------------------------
\* memcpy: while (n--) *d++ = *s++;
memcpy(m, dest, src, n) == CopyLoop([m |-> m, j |-> 0], dest, src, n)
\* memset(s, 0, n)
memset0(m, s, n) == ZeroLoop([m |-> m, j |-> 0], s, n)

\* load_elf 242-252: memcpy of p_filesz bytes, memset of the BSS when memsz > filesz
BiosCopy(m, base, p) ==
    LET dest == Ptr(p.p_paddr)
        src  == Ptr(Add64(base, p.p_offset))
        m1   == memcpy(m, dest, src, ToNat(Trunc32(p.p_filesz)))
    IN  IF Lt64(p.p_filesz, p.p_memsz)
        THEN memset0(m1, Ptr(Add64(dest, p.p_filesz)),
                     ToNat(Trunc32(Sub64(p.p_memsz, p.p_filesz))))
        ELSE m1
BiosTouched(p) ==
    Touched(Ptr(p.p_paddr), 0, ToNat(Trunc32(p.p_filesz))) \cup
    (IF Lt64(p.p_filesz, p.p_memsz)
     THEN Touched(Ptr(Add64(Ptr(p.p_paddr), p.p_filesz)), 0,
                  ToNat(Trunc32(Sub64(p.p_memsz, p.p_filesz))))
     ELSE {})

\* compute_kernel_crc 146-157: one running register over the segments in table order
\* st holds the register crc and the table index k
RECURSIVE BiosCrcSegs(_, _, _)
BiosCrcSegs(st, m, ph) ==
    IF st.k > Len(ph) THEN st.crc
    ELSE IF ph[st.k].p_type # PT_LOAD THEN BiosCrcSegs([crc |-> st.crc, k |-> st.k + 1], m, ph)
    ELSE BiosCrcSegs([crc |-> CrcOver(st.crc, Bytes(m, Ptr(ph[st.k].p_paddr),
                                                    ToNat(Trunc32(ph[st.k].p_memsz)))),
                      k |-> st.k + 1], m, ph)
compute_kernel_crc_bios(m, ph) ==
    BitXor(BiosCrcSegs([crc |-> CRC_ONES, k |-> 1], m, ph), CRC_ONES)

\* sizeof(struct BootInfo) of guaboot2_complete.c on its 32-bit target
BiosBootInfoSize == 4 + 4 + 4 + 4 + 8 + 8 + 4 + 4 + 4 + 4 + 4 + 4

B_rest == <<load_base, load_end, kernel_load_base, kernel_load_size, entry_slot, fw_map, e820_count, fw_calls>>

\* guaboot2_main 336-341: read_kernel, which the BIOS may fail
B_ReadKernel ==
    /\ pc = "B_start"
    /\ \E ok \in BOOLEAN :
         IF ok THEN pc' = "B_load_elf" /\ UNCHANGED console
         ELSE /\ console' = console \o <<"ERROR: Failed to read kernel", "System halted.">>
              /\ pc' = "B_halt"
    /\ verify_ret' = "none" /\ ph_read' = FALSE
    /\ UNCHANGED <<mem, i, kernel_crc32_value, entry, bootinfo, bi_writes, wrote>>
    /\ UNCHANGED <<image_vars, crc_vars, hw_vars, B_rest>>

\* load_elf 220-231
B_Verify ==
    /\ pc = "B_load_elf"
    /\ IF verify_elf_bios(ehdr)
       THEN /\ verify_ret' = "pass"
            /\ pc' = "B_segments" /\ i' = 0 /\ ph_read' = TRUE
            /\ UNCHANGED <<console, entry>>
       ELSE /\ verify_ret' = "fail"
            /\ console' = console \o <<"ERROR: Invalid ELF file", "System halted.">>
            /\ entry' = Zero64
            /\ pc' = "B_halt"
            /\ UNCHANGED <<i, ph_read>>
    /\ UNCHANGED <<mem, kernel_crc32_value, bootinfo, bi_writes, wrote>>
    /\ UNCHANGED <<image_vars, crc_vars, hw_vars, B_rest>>

\* load_elf 233-253: one pass of the loop
B_LoadSegment ==
    /\ pc = "B_segments" /\ i < Len(phdr)
    /\ LET p == phdr[i + 1] IN
       IF p.p_type # PT_LOAD
       THEN UNCHANGED <<mem, wrote>>
       ELSE /\ mem' = BiosCopy(mem, ImageBase, p)
            /\ wrote' = wrote \cup BiosTouched(p)
    /\ i' = i + 1
    /\ UNCHANGED <<pc, kernel_crc32_value, entry, bootinfo, bi_writes, console, verify_ret,
                   ph_read>>
    /\ UNCHANGED <<image_vars, crc_vars, hw_vars, B_rest>>

\* load_elf 255-259 and guaboot2_main 344-347
B_LoadReturn ==
    /\ pc = "B_segments" /\ i = Len(phdr)
    /\ entry' = ehdr.e_entry
    /\ IF ehdr.e_entry = Zero64
       THEN pc' = "B_halt" /\ console' = Append(console, "System halted.")
       ELSE pc' = "B_crc" /\ UNCHANGED console
    /\ verify_ret' = "none" /\ ph_read' = FALSE
    /\ UNCHANGED <<mem, i, kernel_crc32_value, bootinfo, bi_writes, wrote>>
    /\ UNCHANGED <<image_vars, crc_vars, hw_vars, B_rest>>

\* compute_kernel_crc 138-159 and the store into bi->kernel_crc32 (350)
B_ComputeKernelCrc ==
    /\ pc = "B_crc"
    /\ IF verify_elf_bios(ehdr)
       THEN /\ verify_ret' = "pass" /\ ph_read' = TRUE
            /\ kernel_crc32_value' = compute_kernel_crc_bios(mem, phdr)
       ELSE /\ verify_ret' = "fail" /\ ph_read' = FALSE
            /\ kernel_crc32_value' = {}
    /\ bootinfo' = [kernel_crc32 |-> kernel_crc32_value'] @@ bootinfo
    /\ bi_writes' = Append(bi_writes, "kernel_crc32")
    /\ pc' = "B_bootinfo"
    /\ UNCHANGED <<mem, i, entry, console, wrote>>
    /\ UNCHANGED <<image_vars, crc_vars, hw_vars, B_rest>>

\* guaboot2_main 322-327: the static mmap_entries
mmap_entries ==
    << [base |-> 0, length |-> 1048576, typ |-> 2, reserved |-> 0],
       [base |-> 1048576, length |-> 133169152, typ |-> 1, reserved |-> 0] >>

\* detect_memory 280-291: the loop over the returned E820 entries
RECURSIVE E820Totals(_, _)
E820Totals(st, map) ==
    IF st.k > Len(map) THEN st
    ELSE E820Totals(
            IF map[st.k].type # 1 THEN [st EXCEPT !.k = @ + 1]
            ELSE IF map[st.k].base < 1048576
                 THEN [st EXCEPT !.k = @ + 1, !.mem_lower = map[st.k].length \div 1024]
                 ELSE [st EXCEPT !.k = @ + 1,
                                 !.mem_upper = @ + map[st.k].length \div 1024],
            map)
\* detect_memory 269-306 once bios_detect_memory_e820 returned count and left map in
\* e820_map; mmap is e820_map seen through struct BootMmapEntry *, mmap_ptr the pointer
detect_memory(bi, map, count) ==
    IF count > 0
    THEN LET got == SubSeq(map, 1, count)
             tot == E820Totals([k |-> 1, mem_lower |-> 0, mem_upper |-> 0], got)
         IN [mmap_ptr |-> "e820_map",
             mmap |-> [k \in 1..count |->
                         [base |-> got[k].base, length |-> got[k].length,
                          typ |-> got[k].type, reserved |-> got[k].acpi_attrs]],
             mmap_count |-> count,
             mem_lower |-> tot.mem_lower, mem_upper |-> tot.mem_upper] @@ bi
    ELSE [mem_lower |-> 640, mem_upper |-> 31 * 1024, mmap_ptr |-> "NULL",
          mmap |-> <<>>, mmap_count |-> 0] @@ bi
\* detect_memory 292-296 and 303: what it prints
detect_memory_msg_quiet(count) == "Memory detected: "
detect_memory_msg(count) ==
    IF count > 0 THEN "Memory detected: " ELSE "WARNING: Using fallback memory detection"

\* guaboot2_main 359-369: the stores to the record, in program order
\* guaboot2_main 357: the record is written in place at BOOT_INFO_ADDR
BOOT_INFO_ADDR == 1048576
BiosRecordRegion == [lo |-> BOOT_INFO_ADDR, n |-> BiosBootInfoSize]
BiosFieldStores ==
    <<"magic", "version", "size", "boot_device", "cmdline", "mods_count", "mods",
      "mmap", "mmap_count", "mem_lower", "mem_upper">>
\* guaboot2_main 355-369: the boot record at BOOT_INFO_ADDR
B_BuildBootInfo ==
    /\ pc = "B_bootinfo"
    /\ bootinfo' = [magic |-> GBSD_MAGIC, version |-> 65536, size |-> BiosBootInfoSize,
                    boot_device |-> 128, mods_count |-> 1,
                    mmap |-> mmap_entries, mmap_count |-> 2,
                    mem_lower |-> 1024, mem_upper |-> 127 * 1024] @@ bootinfo
    /\ bi_writes' = bi_writes \o BiosFieldStores
    /\ pc' = "B_switch"
    /\ UNCHANGED <<mem, i, kernel_crc32_value, entry, console, verify_ret, ph_read, wrote>>
    /\ UNCHANGED <<image_vars, crc_vars, hw_vars, B_rest>>

\* switch_to_long_mode(entry, bootinfo), an assembly routine declared at line 97:
\* it enters 64-bit mode and calls the entry with the magic and the record's address
switch_to_long_mode(e, b) == [target |-> e, arg1 |-> GBSD_MAGIC, arg2 |-> b]

\* guaboot2_main 377: the call of switch_to_long_mode(entry, (uint64_t)bi)
B_SwitchToLongMode ==
    /\ pc = "B_switch"
    /\ kcall' = switch_to_long_mode(entry, "bi")
    /\ pc' = "B_in_kernel"
    /\ UNCHANGED <<hw, pt, steps, bootinfo_slot>>
    /\ UNCHANGED <<mem, i, kernel_crc32_value, entry, bootinfo, bi_writes, console, verify_ret,
                   ph_read, wrote>>
    /\ UNCHANGED <<image_vars, crc_vars, B_rest>>

\* guaboot2_main 377-380: the call returns and control reaches the label halt
B_KernelReturns ==
    /\ pc = "B_in_kernel"
    /\ console' = Append(console, "System halted.")
    /\ pc' = "B_halt"
    /\ UNCHANGED <<mem, i, kernel_crc32_value, entry, bootinfo, bi_writes, verify_ret, ph_read,
                   wrote>>
    /\ UNCHANGED <<image_vars, crc_vars, hw_vars, B_rest>>

\* guaboot2_main 381-382: cli; hlt; while (1)
B_Halt ==
    /\ pc = "B_halt"
    /\ hw' = [hw EXCEPT !.if_flag = FALSE, !.halted = TRUE]
    /\ pc' = "B_halted"
    /\ UNCHANGED <<pt, steps, bootinfo_slot, kcall>>
    /\ UNCHANGED <<mem, i, kernel_crc32_value, entry, bootinfo, bi_writes, console, verify_ret,
                   ph_read, wrote>>
    /\ UNCHANGED <<image_vars, crc_vars, B_rest>>

\* ------------------------------------------------------------------------
\* efi/guaboot_complete.c (UEFI)
\* ------------------------------------------------------------------------
\* load_elf 275-285
EfiCopy(m, base, p) ==
    LET dest == Ptr(p.p_paddr)
        src  == Ptr(Add64(base, p.p_offset))
        m1   == memcpy(m, dest, src, ToNat(p.p_filesz))
    IN  IF Lt64(p.p_filesz, p.p_memsz)
        THEN memset0(m1, Ptr(Add64(dest, p.p_filesz)),
                     ToNat(Sub64(p.p_memsz, p.p_filesz)))
        ELSE m1
EfiTouched(p) ==
    Touched(Ptr(p.p_paddr), 0, ToNat(p.p_filesz)) \cup
    (IF Lt64(p.p_filesz, p.p_memsz)
     THEN Touched(Ptr(Add64(Ptr(p.p_paddr), p.p_filesz)), 0,
                  ToNat(Sub64(p.p_memsz, p.p_filesz)))
     ELSE {})

\* compute_kernel_crc 243-253: crc = 0; crc ^= crc32(seg, seg_len) per loadable entry
\* st holds the accumulated crc and the table index k
RECURSIVE EfiCrcSegs(_, _, _)
EfiCrcSegs(st, m, ph) ==
    IF st.k > Len(ph) THEN st.crc
    ELSE IF ph[st.k].p_type # PT_LOAD THEN EfiCrcSegs([crc |-> st.crc, k |-> st.k + 1], m, ph)
    ELSE EfiCrcSegs([crc |-> BitXor(st.crc, crc32_efi(Bytes(m, Ptr(ph[st.k].p_paddr),
                                                            ToNat(ph[st.k].p_memsz)))),
                     k |-> st.k + 1], m, ph)
compute_kernel_crc_efi(m, ph) == EfiCrcSegs([crc |-> {}, k |-> 1], m, ph)

EfiConventionalMemory == 7
EfiPageSize == 4096
\* the firmware memory maps of the model: Type, PhysicalStart, NumberOfPages
EfiMaps ==
    { << [Type |-> 0, PhysicalStart |-> 0, NumberOfPages |-> 256],   \* 0: reserved
         [Type |-> EfiConventionalMemory, PhysicalStart |-> 1048576,
          NumberOfPages |-> 32512] >>,
      << [Type |-> EfiConventionalMemory, PhysicalStart |-> 0, NumberOfPages |-> 160] >> }

\* sizeof(struct BootInfo) of efi/guaboot_complete.c: packed, 64-bit pointers
EfiBootInfoSize == 4 + 4 + 4 + 4 + 8 + 8 + 4 + 8 + 4 + 8 + 8 + 4

RECURSIVE EfiMemSum(_, _, _)
EfiMemSum(map, k, low) ==
    IF k > Len(map) THEN 0
    ELSE (IF /\ map[k].Type = EfiConventionalMemory
             /\ (map[k].PhysicalStart < 1048576) = low
          THEN (map[k].NumberOfPages * EfiPageSize) \div 1024 ELSE 0)
         + EfiMemSum(map, k + 1, low)

\* build_bootinfo 326-343: the loop's stores to the totals, one for every
\* EfiConventionalMemory descriptor
RECURSIVE EfiTotalStores(_, _)
EfiTotalStores(map, k) ==
    IF k > Len(map) THEN <<>>
    ELSE (IF map[k].Type # EfiConventionalMemory THEN <<>>
          ELSE IF map[k].PhysicalStart < 1048576 THEN <<"mem_lower">> ELSE <<"mem_upper">>)
         \o EfiTotalStores(map, k + 1)
\* build_bootinfo 305-347: the stores to the record, in program order
EfiFieldStores(map) ==
    <<"magic", "version", "size", "kernel_crc32", "boot_device", "cmdline", "mods_count",
      "mods", "mem_lower", "mem_upper">> \o EfiTotalStores(map, 1) \o <<"mmap", "mmap_count">>
\* build_bootinfo 305-347 of efi/guaboot_complete.c
\* (build_bootinfo_efi_loose: boot-services data, type 4, taken for usable as well)
build_bootinfo_efi_loose(map, crc) ==
    [magic |-> GBSD_MAGIC, version |-> 65536, size |-> EfiBootInfoSize,
     kernel_crc32 |-> crc, boot_device |-> 0, mods_count |-> 0,
     mem_lower |-> EfiMemSum(map, 1, TRUE), mem_upper |-> EfiMemSum(map, 1, FALSE),
     mmap |-> [k \in 1..Len(map) |->
                 [base |-> map[k].PhysicalStart,
                  length |-> map[k].NumberOfPages * EfiPageSize,
                  typ |-> IF map[k].Type \in {EfiConventionalMemory, 4} THEN 1 ELSE 2,
                  reserved |-> 0]],
     mmap_count |-> Len(map)]
build_bootinfo_efi(map, crc) ==
    [magic |-> GBSD_MAGIC, version |-> 65536, size |-> EfiBootInfoSize,
     kernel_crc32 |-> crc, boot_device |-> 0, mods_count |-> 0,
     mem_lower |-> EfiMemSum(map, 1, TRUE), mem_upper |-> EfiMemSum(map, 1, FALSE),
     mmap |-> [k \in 1..Len(map) |->
                 [base |-> map[k].PhysicalStart,
                  length |-> map[k].NumberOfPages * EfiPageSize,
                  typ |-> IF map[k].Type = EfiConventionalMemory THEN 1 ELSE 2,
                  reserved |-> 0]],
     mmap_count |-> Len(map)]

U_rest == <<load_base, load_end, kernel_load_base, kernel_load_size, entry_slot>>

\* efi_main 380-386: load_file, which the firmware may fail
U_LoadFile ==
    /\ pc = "U_start"
    /\ \E ok \in BOOLEAN :
         IF ok THEN pc' = "U_load_elf" /\ UNCHANGED console
         ELSE /\ console' = Append(console, "FATAL: Cannot load kernel")
              /\ pc' = "U_returned"
    /\ verify_ret' = "none" /\ ph_read' = FALSE
    /\ UNCHANGED <<mem, i, kernel_crc32_value, entry, bootinfo, bi_writes, wrote, fw_map,
                   e820_count, fw_calls>>
    /\ UNCHANGED <<image_vars, crc_vars, hw_vars, U_rest>>

\* load_elf 256-266
U_Verify ==
    /\ pc = "U_load_elf"
    /\ IF verify_elf_efi(ehdr)
       THEN /\ verify_ret' = "pass"
            /\ pc' = "U_segments" /\ i' = 0 /\ ph_read' = TRUE
            /\ UNCHANGED <<console, entry>>
       ELSE /\ verify_ret' = "fail"
            /\ console' = console \o <<"ERROR: Invalid ELF file", "FATAL: Cannot load ELF">>
            /\ entry' = Zero64
            /\ pc' = "U_returned"
            /\ UNCHANGED <<i, ph_read>>
    /\ UNCHANGED <<mem, kernel_crc32_value, bootinfo, bi_writes, wrote, fw_map, e820_count, fw_calls>>
    /\ UNCHANGED <<image_vars, crc_vars, hw_vars, U_rest>>

\* load_elf 268-286: one pass of the loop
U_LoadSegment ==
    /\ pc = "U_segments" /\ i < Len(phdr)
    /\ LET p == phdr[i + 1] IN
       IF p.p_type # PT_LOAD
       THEN UNCHANGED <<mem, wrote>>
       ELSE /\ mem' = EfiCopy(mem, ImageBase, p)
            /\ wrote' = wrote \cup EfiTouched(p)
    /\ i' = i + 1
    /\ UNCHANGED <<pc, kernel_crc32_value, entry, bootinfo, bi_writes, console, verify_ret,
                   ph_read, fw_map, e820_count, fw_calls>>
    /\ UNCHANGED <<image_vars, crc_vars, hw_vars, U_rest>>

\* load_elf 288-290 and efi_main 391-396
U_LoadReturn ==
    /\ pc = "U_segments" /\ i = Len(phdr)
    /\ entry' = ehdr.e_entry
    /\ IF ehdr.e_entry = Zero64
       THEN pc' = "U_returned" /\ console' = Append(console, "FATAL: Cannot load ELF")
       ELSE pc' = "U_crc" /\ UNCHANGED console
    /\ verify_ret' = "none" /\ ph_read' = FALSE
    /\ UNCHANGED <<mem, i, kernel_crc32_value, bootinfo, bi_writes, wrote, fw_map, e820_count, fw_calls>>
    /\ UNCHANGED <<image_vars, crc_vars, hw_vars, U_rest>>

\* compute_kernel_crc 237-254, called at efi_main 397
U_ComputeKernelCrc ==
    /\ pc = "U_crc"
    /\ IF verify_elf_efi(ehdr)
       THEN /\ verify_ret' = "pass" /\ ph_read' = TRUE
            /\ kernel_crc32_value' = compute_kernel_crc_efi(mem, phdr)
       ELSE /\ verify_ret' = "fail" /\ ph_read' = FALSE
            /\ kernel_crc32_value' = {}
    /\ pc' = "U_getmap"
    /\ UNCHANGED <<mem, i, entry, bootinfo, bi_writes, console, wrote, fw_map, e820_count, fw_calls>>
    /\ UNCHANGED <<image_vars, crc_vars, hw_vars, U_rest>>

\* efi_main 399-431: the size query, the pool allocation and the map itself; the
\* firmware answers each GetMemoryMap with a status, AllocatePool may return NULL
U_GetMemoryMap ==
    /\ pc = "U_getmap"
    /\ \E size_st \in {"EFI_BUFFER_TOO_SMALL", "EFI_SUCCESS", "EFI_INVALID_PARAMETER"},
          pool_ok \in BOOLEAN,
          map_st \in {"EFI_SUCCESS", "EFI_BUFFER_TOO_SMALL", "EFI_INVALID_PARAMETER"},
          map \in EfiMaps :
         LET probe == <<[call |-> "GetMemoryMap", status |-> size_st]>>
             pool == <<[call |-> "AllocatePool",
                        status |-> IF pool_ok THEN "EFI_SUCCESS" ELSE "NULL"]>>
             fetch == <<[call |-> "GetMemoryMap", status |-> map_st]>>
         IN IF size_st # "EFI_BUFFER_TOO_SMALL"
            THEN /\ fw_calls' = fw_calls \o probe
                 /\ console' = Append(console, "ERROR: Cannot get memory map size")
                 /\ pc' = "U_returned" /\ UNCHANGED fw_map
            ELSE IF ~pool_ok
            THEN /\ fw_calls' = fw_calls \o probe \o pool
                 /\ console' = Append(console, "ERROR: Cannot allocate memory map")
                 /\ pc' = "U_returned" /\ UNCHANGED fw_map
            ELSE IF map_st # "EFI_SUCCESS"
            THEN /\ fw_calls' = fw_calls \o probe \o pool \o fetch
                 /\ console' = Append(console, "ERROR: Cannot get memory map")
                 /\ pc' = "U_returned" /\ UNCHANGED fw_map
            ELSE /\ fw_calls' = fw_calls \o probe \o pool \o fetch
                 /\ fw_map' = map /\ pc' = "U_build" /\ UNCHANGED console
    /\ UNCHANGED <<mem, i, kernel_crc32_value, entry, bootinfo, bi_writes, verify_ret, ph_read,
                   wrote>>
    /\ UNCHANGED <<image_vars, crc_vars, hw_vars, U_rest, e820_count>>

\* efi_main 433-441 and build_bootinfo 297-352; AllocatePool may return NULL
U_BuildBootInfo ==
    /\ pc = "U_build"
    /\ \E pool_ok \in BOOLEAN :
         IF pool_ok
         THEN /\ bootinfo' = build_bootinfo_efi(fw_map, kernel_crc32_value)
              /\ bi_writes' = bi_writes \o EfiFieldStores(fw_map)
              /\ fw_calls' = fw_calls \o <<[call |-> "AllocatePool", status |-> "EFI_SUCCESS"],
                                           [call |-> "AllocatePool", status |-> "EFI_SUCCESS"]>>
              /\ pc' = "U_exit_boot_services"
              /\ UNCHANGED console
         ELSE /\ console' = Append(console, "ERROR: Cannot build BootInfo")
              /\ fw_calls' = Append(fw_calls, [call |-> "AllocatePool", status |-> "NULL"])
              /\ pc' = "U_returned"
              /\ UNCHANGED <<bootinfo, bi_writes>>
    /\ UNCHANGED <<mem, i, kernel_crc32_value, entry, verify_ret, ph_read, wrote, fw_map,
                   e820_count>>
    /\ UNCHANGED <<image_vars, crc_vars, hw_vars, U_rest>>

\* efi_main 443-458: ExitBootServices; on any error status the map is fetched again
\* into the same buffer and, if that succeeds, ExitBootServices is called once more
U_ExitBootServices ==
    /\ pc = "U_exit_boot_services"
    /\ \E first \in {"EFI_SUCCESS", "EFI_INVALID_PARAMETER", "EFI_DEVICE_ERROR"},
          map_st \in {"EFI_SUCCESS", "EFI_BUFFER_TOO_SMALL", "EFI_INVALID_PARAMETER"},
          second \in {"EFI_SUCCESS", "EFI_INVALID_PARAMETER", "EFI_DEVICE_ERROR"},
          map \in EfiMaps :
         LET exit1 == <<[call |-> "ExitBootServices", status |-> first]>>
             fetch == <<[call |-> "GetMemoryMap", status |-> map_st]>>
             exit2 == <<[call |-> "ExitBootServices", status |-> second]>>
         IN IF first = "EFI_SUCCESS"
            THEN /\ fw_calls' = fw_calls \o exit1
                 /\ pc' = "U_dispatch" /\ UNCHANGED <<console, fw_map>>
            ELSE IF map_st # "EFI_SUCCESS"
            THEN /\ fw_calls' = fw_calls \o exit1 \o fetch
                 /\ console' = console \o <<"ERROR: Cannot exit boot services",
                                            "FATAL: Cannot exit boot services">>
                 /\ pc' = "U_returned" /\ UNCHANGED fw_map
            ELSE /\ fw_calls' = fw_calls \o exit1 \o fetch \o exit2
                 /\ fw_map' = map
                 /\ IF second = "EFI_SUCCESS"
                    THEN /\ console' = Append(console, "ERROR: Cannot exit boot services")
                         /\ pc' = "U_dispatch"
                    ELSE /\ console' = console \o <<"ERROR: Cannot exit boot services",
                                                    "FATAL: Cannot exit boot services">>
                         /\ pc' = "U_returned"
    /\ UNCHANGED <<mem, i, kernel_crc32_value, entry, bootinfo, bi_writes, verify_ret, ph_read,
                   wrote, e820_count>>
    /\ UNCHANGED <<image_vars, crc_vars, hw_vars, U_rest>>

\* efi_main 463-466: entry(GBSD_MAGIC, bi)
U_CallKernel ==
    /\ pc = "U_dispatch"
    /\ kcall' = [target |-> entry, arg1 |-> GBSD_MAGIC, arg2 |-> "bi"]
    /\ pc' = "U_in_kernel"
    /\ UNCHANGED <<hw, pt, steps, bootinfo_slot>>
    /\ UNCHANGED <<mem, i, kernel_crc32_value, entry, bootinfo, bi_writes, console, verify_ret,
                   ph_read, wrote, fw_map, e820_count, fw_calls>>
    /\ UNCHANGED <<image_vars, crc_vars, U_rest>>

\* efi_main 468-471: the call returns; while (1) hlt
U_KernelReturns ==
    /\ pc = "U_in_kernel"
    /\ hw' = [hw EXCEPT !.halted = TRUE]
    /\ pc' = "U_hlt_loop"
    /\ UNCHANGED <<pt, steps, bootinfo_slot, kcall>>
    /\ UNCHANGED <<mem, i, kernel_crc32_value, entry, bootinfo, bi_writes, console, verify_ret,
                   ph_read, wrote, fw_map, e820_count, fw_calls>>
    /\ UNCHANGED <<image_vars, crc_vars, U_rest>>

\* ------------------------------------------------------------------------
\* Integrity Checker as a function of a byte sequence
\* ------------------------------------------------------------------------
CrcBytes == {0, 1, 49, 128, 255}
CheckString == <<49, 50, 51, 52, 53, 54, 55, 56, 57>>    \* "123456789"
CrcInputs == SeqsUpTo(CrcBytes, MaxCrcLen) \cup {CheckString}

\* data with bit b of byte k inverted
FlipBit(data, k, b) ==
    [data EXCEPT ![k] = IF b \in ByteBits(data[k]) THEN data[k] - 2^b ELSE data[k] + 2^b]

\* the three checksum routines applied to crc_data
C_Calc ==
    /\ pc = "C_start"
    /\ crc_out' = [loader |-> crc32_calc(crc_data), bios |-> crc32_bios(crc_data),
                   efi |-> crc32_efi(crc_data)]
    /\ pc' = "C_done"
    /\ UNCHANGED <<crc_data, crc_flip>>
    /\ UNCHANGED hw_vars
    /\ UNCHANGED <<image_vars, mem, i, load_base, load_end, kernel_crc32_value,
                   kernel_load_base, kernel_load_size, entry, entry_slot, bootinfo, bi_writes,
                   console, verify_ret, ph_read, wrote, fw_map, e820_count, fw_calls>>

\* crc32_calc applied once more, to the range with one bit inverted
C_Flip ==
    /\ pc = "C_done"
    /\ \E k \in 1..Len(crc_data), b \in 0..7 :
         crc_flip' = [byte |-> k, bit |-> b, data |-> FlipBit(crc_data, k, b),
                      out |-> crc32_calc(FlipBit(crc_data, k, b))]
    /\ pc' = "C_flipped"
    /\ UNCHANGED <<crc_data, crc_out>>
    /\ UNCHANGED hw_vars
    /\ UNCHANGED <<image_vars, mem, i, load_base, load_end, kernel_crc32_value,
                   kernel_load_base, kernel_load_size, entry, entry_slot, bootinfo, bi_writes,
                   console, verify_ret, ph_read, wrote, fw_map, e820_count, fw_calls>>

\* ------------------------------------------------------------------------
\* Address-Space Setup alone, over tables with arbitrary prior contents
\* ------------------------------------------------------------------------
\* what a table may hold before setup_identity_paging runs: entry k of each pattern
PtGarbage ==
    { [k \in PtIndex |-> {}],
      [k \in PtIndex |-> 0..63],
      [k \in PtIndex |-> {63}],
      [k \in PtIndex |-> NatBits(k) \cup {0}],
      [k \in PtIndex |-> {0, 1, 7, 12, 40}] }

\* setup_identity_paging, called once and then once more
P_Setup ==
    /\ pc \in {"P_start", "P_once"}
    /\ pt' = setup_identity_paging(pt)
    /\ steps' = Append(steps, "tables")
    /\ pc' = IF pc = "P_start" THEN "P_once" ELSE "P_twice"
    /\ UNCHANGED <<hw, bootinfo_slot, kcall>>
    /\ UNCHANGED <<image_vars, crc_vars, mem, i, load_base, load_end, kernel_crc32_value,
                   kernel_load_base, kernel_load_size, entry, entry_slot, bootinfo, bi_writes,
                   console, verify_ret, ph_read, wrote, fw_map, e820_count, fw_calls>>

\* ------------------------------------------------------------------------
\* Specifications
\* ------------------------------------------------------------------------
FillBytes == {0, 170}
StartPc == [loader |-> "L_start", bios |-> "B_start", uefi |-> "U_start"]

\* the state every loader starts in, the image apart
InitRun ==
    /\ pc = StartPc[variant]
    /\ mem = <<>> /\ wrote = {}
    /\ i = 0 /\ load_base = Zero64 /\ load_end = Zero64
    /\ kernel_crc32_value = {} /\ kernel_load_base = Zero64 /\ kernel_load_size = Zero64
    /\ entry = Zero64 /\ entry_slot = Zero64
    /\ bootinfo = NoBootInfo /\ bi_writes = <<>> /\ console = <<>>
    /\ verify_ret = "none" /\ ph_read = FALSE
    /\ fw_map = <<>> /\ e820_count = 0 /\ fw_calls = <<>>
    /\ pt = PtZero /\ steps = <<>> /\ bootinfo_slot = Zero64 /\ kcall = <<>>
    /\ crc_data = <<>> /\ crc_out = <<>> /\ crc_flip = <<>>

\* segment loading: few headers, every image of up to MaxPhnum menu entries; for
\* loader.c the images whose checksummed range is longer than MaxSpan are left out;
\* interrupts are on under UEFI and off in the other two
Init ==
    /\ variant \in Variants
    /\ kernel_phys \in (IF variant = "loader" THEN {Zero64, U64(0, 0, 32, 0)}
                        ELSE {U64(0, 0, 32, 0)})
    /\ ehdr \in LoadEhdrs
    /\ phdr \in {ph \in SeqsUpTo(SegMenu, MaxPhnum) :
                     variant = "loader" => (HasLowSegment(ph) \/ SpanOK(ph))}
    /\ fill \in FillBytes
    /\ hw = HwReset(variant = "uefi")
    /\ InitRun

\* verification: every header, two images, the interrupt flag on or off where the
\* previous stage decides it
InitVerify ==
    /\ variant \in Variants
    /\ kernel_phys = U64(0, 0, 32, 0)
    /\ ehdr \in AllEhdrs
    /\ phdr \in { << Phdr(PT_LOAD, U64(0, 0, 16, 0), 0, 1, 2) >>,
                  << Phdr(PT_LOAD, U64(0, 0, 16, 0), 0, 1, 2),
                     Phdr(PT_LOAD, U64(0, 0, 16, 2), 1, 2, 2) >> }
    /\ fill \in FillBytes
    /\ hw \in {HwReset(f) : f \in (IF variant = "uefi" THEN {TRUE} ELSE BOOLEAN)}
    /\ InitRun

\* the checksum routines alone
InitCrc ==
    /\ variant = "loader" /\ kernel_phys = Zero64
    /\ ehdr = GoodEhdr(Zero64) /\ phdr = <<>> /\ fill = 0
    /\ pc = "C_start"
    /\ mem = <<>> /\ wrote = {}
    /\ i = 0 /\ load_base = Zero64 /\ load_end = Zero64
    /\ kernel_crc32_value = {} /\ kernel_load_base = Zero64 /\ kernel_load_size = Zero64
    /\ entry = Zero64 /\ entry_slot = Zero64
    /\ bootinfo = NoBootInfo /\ bi_writes = <<>> /\ console = <<>>
    /\ verify_ret = "none" /\ ph_read = FALSE
    /\ fw_map = <<>> /\ e820_count = 0 /\ fw_calls = <<>>
    /\ hw = HwReset(FALSE) /\ pt = PtZero /\ steps = <<>>
    /\ bootinfo_slot = Zero64 /\ kcall = <<>>
    /\ crc_data \in CrcInputs /\ crc_out = <<>> /\ crc_flip = <<>>

\* address-space setup alone: every combination of prior table contents
InitPaging ==
    /\ variant = "loader" /\ kernel_phys = Zero64
    /\ ehdr = GoodEhdr(Zero64) /\ phdr = <<>> /\ fill = 0
    /\ pc = "P_start"
    /\ mem = <<>> /\ wrote = {}
    /\ i = 0 /\ load_base = Zero64 /\ load_end = Zero64
    /\ kernel_crc32_value = {} /\ kernel_load_base = Zero64 /\ kernel_load_size = Zero64
    /\ entry = Zero64 /\ entry_slot = Zero64
    /\ bootinfo = NoBootInfo /\ bi_writes = <<>> /\ console = <<>>
    /\ verify_ret = "none" /\ ph_read = FALSE
    /\ fw_map = <<>> /\ e820_count = 0 /\ fw_calls = <<>>
    /\ hw = HwReset(FALSE) /\ steps = <<>> /\ bootinfo_slot = Zero64 /\ kcall = <<>>
    /\ pt \in [pml4 : PtGarbage, pdpt : PtGarbage, pd : PtGarbage]
    /\ crc_data = <<>> /\ crc_out = <<>> /\ crc_flip = <<>>

\* ------------------------------------------------------------------------
\* The memory-map translators alone
\* ------------------------------------------------------------------------
MaxMapLen == 3
\* E820 entries the firmware may return: base, length, type, acpi_attrs
E820Menu ==
    { [base |-> 0, length |-> 654336, type |-> 1, acpi_attrs |-> 1],
      [base |-> 654336, length |-> 1536, type |-> 1, acpi_attrs |-> 1],
      [base |-> 983040, length |-> 65536, type |-> 2, acpi_attrs |-> 0],
      [base |-> 1048576, length |-> 133169152, type |-> 1, acpi_attrs |-> 1],
      [base |-> 134217728, length |-> 16777216, type |-> 3, acpi_attrs |-> 1],
      [base |-> 150994944, length |-> 16778000, type |-> 1, acpi_attrs |-> 0] }
\* UEFI descriptors the firmware may return: Type, PhysicalStart, NumberOfPages
EfiMenu ==
    { [Type |-> EfiConventionalMemory, PhysicalStart |-> 0, NumberOfPages |-> 159],
      [Type |-> EfiConventionalMemory, PhysicalStart |-> 651264, NumberOfPages |-> 1],
      [Type |-> 0, PhysicalStart |-> 0, NumberOfPages |-> 256],
      [Type |-> EfiConventionalMemory, PhysicalStart |-> 1048576, NumberOfPages |-> 32512],
      [Type |-> 9, PhysicalStart |-> 134217728, NumberOfPages |-> 16],
      [Type |-> 4, PhysicalStart |-> 150994944, NumberOfPages |-> 4096] }
MapsOver(menu) == UNION {[1..n -> menu] : n \in 0..MaxMapLen}

\* detect_memory(bi) on an empty record; bios_detect_memory_e820 returns the
\* number of entries it stored, or a negative number when the call fails
M_DetectMemory ==
    /\ pc = "M_start" /\ variant = "bios"
    /\ \E count \in {Len(fw_map), -1} :
         /\ e820_count' = count
         /\ bootinfo' = detect_memory(bootinfo, fw_map, count)
         /\ console' = Append(console, detect_memory_msg(count))
    /\ pc' = "M_done"
    /\ UNCHANGED <<mem, i, load_base, load_end, kernel_crc32_value, kernel_load_base,
                   kernel_load_size, entry, entry_slot, bi_writes, verify_ret, ph_read,
                   wrote, fw_map, fw_calls>>
    /\ UNCHANGED <<image_vars, crc_vars, hw_vars>>

\* build_bootinfo(mmap, mmap_size, desc_size, kernel_crc32) of the UEFI loader,
\* both allocations succeeding
M_BuildBootInfo ==
    /\ pc = "M_start" /\ variant = "uefi"
    /\ bootinfo' = build_bootinfo_efi(fw_map, kernel_crc32_value)
    /\ bi_writes' = bi_writes \o EfiFieldStores(fw_map)
    /\ pc' = "M_done"
    /\ UNCHANGED <<mem, i, load_base, load_end, kernel_crc32_value, kernel_load_base,
                   kernel_load_size, entry, entry_slot, console, verify_ret, ph_read,
                   wrote, fw_map, e820_count, fw_calls>>
    /\ UNCHANGED <<image_vars, crc_vars, hw_vars>>

InitMap ==
    /\ variant \in {"bios", "uefi"} /\ kernel_phys = Zero64
    /\ ehdr = GoodEhdr(Zero64) /\ phdr = <<>> /\ fill = 0
    /\ pc = "M_start"
    /\ mem = <<>> /\ wrote = {}
    /\ i = 0 /\ load_base = Zero64 /\ load_end = Zero64
    /\ kernel_crc32_value = {} /\ kernel_load_base = Zero64 /\ kernel_load_size = Zero64
    /\ entry = Zero64 /\ entry_slot = Zero64
    /\ bootinfo = NoBootInfo /\ bi_writes = <<>> /\ console = <<>>
    /\ verify_ret = "none" /\ ph_read = FALSE
    /\ fw_map \in MapsOver(IF variant = "bios" THEN E820Menu ELSE EfiMenu)
    /\ e820_count = 0 /\ fw_calls = <<>>
    /\ hw = HwReset(FALSE) /\ pt = PtZero /\ steps = <<>>
    /\ bootinfo_slot = Zero64 /\ kcall = <<>>
    /\ crc_data = <<>> /\ crc_out = <<>> /\ crc_flip = <<>>
Next ==
    \/ L_Validate \/ L_LoadSegment \/ L_LoadFinish \/ L_LoadKernel
    \/ L_BuildBootInfo \/ L_PublishBootInfo \/ L_DisablePic \/ L_CheckEntrySlot
    \/ L_SetupPaging \/ L_Lgdt \/ L_LoadDataSegments \/ L_SetStack \/ L_EnablePAE
    \/ L_LoadCr3 \/ L_EnableLME \/ L_EnablePG \/ L_FarJump
    \/ B_ReadKernel \/ B_Verify \/ B_LoadSegment \/ B_LoadReturn
    \/ B_ComputeKernelCrc \/ B_BuildBootInfo
    \/ B_SwitchToLongMode \/ B_KernelReturns \/ B_Halt
    \/ U_LoadFile \/ U_Verify \/ U_LoadSegment \/ U_LoadReturn
    \/ U_ComputeKernelCrc \/ U_GetMemoryMap \/ U_BuildBootInfo
    \/ U_ExitBootServices \/ U_CallKernel \/ U_KernelReturns

NextCrc == C_Calc \/ C_Flip

Spec == Init /\ [][Next]_vars
SpecVerify == InitVerify /\ [][Next]_vars
SpecCrc == InitCrc /\ [][NextCrc]_vars
SpecPaging == InitPaging /\ [][P_Setup]_vars
NextMap == M_DetectMemory \/ M_BuildBootInfo
SpecMap == InitMap /\ [][NextMap]_vars

\* ------------------------------------------------------------------------
\* Claims
\* ------------------------------------------------------------------------
\* the load function returned an entry address and its caller went on
LoadAccepted ==
    pc \in {"L_kernel_loaded", "B_crc", "B_bootinfo", "B_switch",
            "U_crc", "U_getmap", "U_build", "U_exit_boot_services"}

NoWrap(p) == Le64(p.p_paddr, SegEnd(p))
Disjoint(p, q) == Le64(SegEnd(p), q.p_paddr) \/ Le64(SegEnd(q), p.p_paddr)
\* filesz <= memsz in every loadable entry, destination ranges pairwise disjoint
WellFormed(ph) ==
    /\ \A k \in Loadable(ph) : Le64(ph[k].p_filesz, ph[k].p_memsz) /\ NoWrap(ph[k])
    /\ \A k, l \in Loadable(ph) : k # l => Disjoint(ph[k], ph[l])

\* the image byte at file offset off
ImageByte(off) == MemBefore(Add64(ImageBase, off))

\* memory[p_paddr + j] = image[p_offset + j] below filesz, 0 from filesz to memsz
SegmentInPlace(p) ==
    /\ \A j \in 0..(ToNat(p.p_filesz) - 1) :
         Read(mem, Add64(p.p_paddr, FromNat(j))) = ImageByte(Add64(p.p_offset, FromNat(j)))
    /\ \A j \in ToNat(p.p_filesz)..(ToNat(p.p_memsz) - 1) :
         Read(mem, Add64(p.p_paddr, FromNat(j))) = 0

\* C1: after loading an accepted well-formed image (filesz <= memsz, destination
\* ranges disjoint) every loadable segment holds its file bytes in [0, filesz) and
\* zero in [filesz, memsz), in all three loaders.
C1_SegmentsLoadedExactly ==
    (LoadAccepted /\ WellFormed(phdr)) => \A k \in Loadable(phdr) : SegmentInPlace(phdr[k])

\* C1: the statement fails on the code.  A destination that lies on the image's own
\* bytes in the load buffer is overwritten before it is copied (all loaders), and
\* the 32-bit loaders write through a truncated pointer when p_paddr >= 2^32.

\* C2: an image with a loadable segment below 1 MiB, at any position of the table,
\* is refused by load_kernel_from_memory with no byte of any segment written.
C2_AllOrNothing ==
    (variant = "loader" /\ validate_elf_header(ehdr) /\ HasLowSegment(phdr)) =>
        /\ pc \notin {"L_returned", "L_kernel_loaded"}
        /\ pc = "L_hang" => (wrote = {} /\ \A a \in DOMAIN mem : mem[a] = MemBefore(a))

\* C3: in every loader a header with a wrong magic byte, class 32 instead of 64, or
\* machine i386 instead of x86-64 is rejected by the verifier and nothing of the
\* image is loaded.
BadMagicClassMachine(h) ==
    ~MagicOK(h) \/ h.e_ident[5] # ELFCLASS64 \/ h.e_machine # EM_X86_64
C3_RejectsMagicClassMachine ==
    BadMagicClassMachine(ehdr) =>
        /\ verify_ret # "pass"
        /\ ~ph_read
        /\ wrote = {} /\ mem = <<>>
        /\ pc \in {"L_start", "L_hang", "B_start", "B_load_elf", "B_halt", "B_halted",
                   "U_start", "U_load_elf", "U_returned"}
C3_Witness ==
    /\ variant = "bios" /\ pc = "B_halt" /\ verify_ret = "fail"
    /\ MagicOK(ehdr) /\ ehdr.e_ident[5] = ELFCLASS64 /\ ehdr.e_machine = 3
    /\ ehdr.e_ident[6] = ELFDATA2LSB /\ ehdr.e_type = ET_EXEC

\* C4: in every loader a header that is not little-endian, or whose type is not
\* ET_EXEC, is rejected and none of its segments is loaded.
C4_RejectsEndianAndType ==
    (ehdr.e_ident[6] # ELFDATA2LSB \/ ehdr.e_type # ET_EXEC) =>
        (verify_ret # "pass" /\ wrote = {})

\* C5: validate_elf_header checks magic, class, endianness, type, machine in that
\* order, and headers that fail first on different checks are reported with
\* different reasons.
FirstFailing(h) ==
    IF ~MagicOK(h) THEN "magic"
    ELSE IF h.e_ident[5] # ELFCLASS64 THEN "class"
    ELSE IF h.e_ident[6] # ELFDATA2LSB THEN "endianness"
    ELSE IF h.e_type # ET_EXEC THEN "type"
    ELSE IF h.e_machine # EM_X86_64 THEN "machine"
    ELSE "none"
C5_DistinctReasons ==
    (variant = "loader" /\ verify_ret = "fail") =>
        /\ console[1] = validate_elf_header_msg(ehdr)
        /\ \A h \in AllEhdrs :
             FirstFailing(h) # FirstFailing(ehdr) => validate_elf_header_msg(h) # console[1]

\* C6: a function that reads the program-header table has had the verifier return
\* pass before it reads e_phoff, e_phnum or an entry; after a failed verification
\* nothing derived from the header is read and nothing is written.
C6_VerifiedBeforePhdrs ==
    /\ ph_read => verify_ret = "pass"
    /\ pc \in {"L_segments", "B_segments", "U_segments"} => verify_ret = "pass"
    /\ verify_ret = "fail" => (~ph_read /\ wrote = {})
C6_Witness ==
    variant = "bios" /\ pc = "B_bootinfo" /\ ph_read /\ verify_ret = "pass" /\ wrote # {}

\* the IEEE 802.3 CRC-32 as the standard states it: the generator
\* x^32+x^26+x^23+x^22+x^16+x^12+x^11+x^10+x^8+x^7+x^5+x^4+x^2+x+1 (0x04C11DB7),
\* the message fed least significant bit of each byte first into a left-shifting
\* register preset to all ones, the result bit-reversed and complemented
IEEE_GENERATOR == {26, 23, 22, 16, 12, 11, 10, 8, 7, 5, 4, 2, 1, 0}
RefStep(reg, bit) ==
    IF (31 \in reg) # bit THEN BitXor(Shl1(reg), IEEE_GENERATOR) ELSE Shl1(reg)
\* the eight message bits of one byte, least significant first
RECURSIVE RefByte(_, _)
RefByte(st, byte) ==
    IF st.b = 8 THEN st.reg
    ELSE RefByte([reg |-> RefStep(st.reg, st.b \in ByteBits(byte)), b |-> st.b + 1], byte)
RECURSIVE RefBytes(_, _)
RefBytes(st, data) ==
    IF st.n > Len(data) THEN st.reg
    ELSE RefBytes([reg |-> RefByte([reg |-> st.reg, b |-> 0], data[st.n]), n |-> st.n + 1],
                  data)
RefCrc32(data) == Bits32 \ {31 - k : k \in RefBytes([reg |-> Bits32, n |-> 1], data)}

\* C7: crc32_calc and both crc32 routines return the IEEE 802.3 CRC-32 of every byte
\* sequence, the empty one included (0), and 0xCBF43926 for "123456789".
C7_CrcIsIeee ==
    pc \in {"C_done", "C_flipped"} =>
        /\ crc_out.loader = RefCrc32(crc_data)
        /\ crc_out.bios = RefCrc32(crc_data)
        /\ crc_out.efi = RefCrc32(crc_data)
        /\ crc_data = <<>> => Halves(crc_out.loader) = <<0, 0>>
        /\ crc_data = CheckString => Halves(crc_out.loader) = <<52212, 14630>>
C7_Witness ==
    /\ pc = "C_done" /\ crc_data = CheckString
    /\ Halves(crc_out.loader) = <<52212, 14630>>
    /\ crc_out.bios = crc_out.loader /\ crc_out.efi = crc_out.loader

\* C8: inverting any one bit of a non-empty range changes crc32_calc of the range.
C8_SingleBitFlipDetected ==
    pc = "C_flipped" => crc_flip.out # crc_out.loader
C8_Witness ==
    /\ pc = "C_flipped" /\ Len(crc_data) >= 2
    /\ crc_flip.byte = 1 /\ crc_flip.bit = 7
    /\ crc_flip.data # crc_data /\ crc_flip.out # crc_out.loader

\* the bytes of the range [MinStart, MaxEnd) as they stand in memory
RangeBytes(ph) ==
    [k \in 1..ToNat(RangeLen(ph)) |-> Read(mem, Add64(MinStart(ph), FromNat(k - 1)))]

\* C9: in every loader the kernel_crc32 of the boot record is the IEEE CRC-32 of the
\* contiguous range [minimum segment start, maximum segment end) in memory.
C9_CrcOverLoadedRange ==
    ("kernel_crc32" \in DOMAIN bootinfo /\ RangeNonEmpty(phdr) /\ SpanOK(phdr)) =>
        bootinfo.kernel_crc32 = RefCrc32(RangeBytes(phdr))

\* C10: after a successful load_kernel_from_memory the boot record's kernel_base is
\* the least p_paddr and kernel_size the greatest p_paddr + p_memsz less that, over
\* the loadable entries in any order; with no loadable entry or an empty range
\* kernel_base, kernel_size and kernel_crc32 are 0.
C10_RangeTracking ==
    pc = "L_kernel_loaded" =>
        IF RangeNonEmpty(phdr)
        THEN /\ bootinfo.kernel_base = MinStart(phdr)
             /\ bootinfo.kernel_size = Sub64(MaxEnd(phdr), MinStart(phdr))
        ELSE /\ bootinfo.kernel_base = Zero64
             /\ bootinfo.kernel_size = Zero64
             /\ bootinfo.kernel_crc32 = {}
C10_Witness ==
    /\ pc = "L_kernel_loaded" /\ Len(phdr) = 2 /\ Loadable(phdr) = {1, 2}
    /\ Lt64(phdr[2].p_paddr, phdr[1].p_paddr)
    /\ Lt64(SegEnd(phdr[2]), SegEnd(phdr[1]))
    /\ bootinfo.kernel_base = phdr[2].p_paddr
    /\ bootinfo.kernel_size # Zero64

\* ------------------------------------------------------------------------
\* C11..C20: pipeline, fatal conditions, mode transition, handoff, paging
\* ------------------------------------------------------------------------
StepsDone == {steps[k] : k \in 1..Len(steps)}
TransitionSteps == {"lgdt", "segs", "pae", "cr3", "efer", "pg", "ljmp"}
\* no control register, MSR or segment register written, no jump taken
HwUntouched ==
    /\ hw.cr0 = {0} /\ hw.cr3 = 0 /\ hw.cr4 = {} /\ hw.efer = {}
    /\ hw.gdtr = [limit |-> 0, base |-> 0] /\ hw.rip = 0 /\ hw.cs = 0

\* C11: loader.c runs verify, load, checksum, boot record, page tables, transition in
\* that order: the record is built only after a passed verification, a finished segment
\* loop and the stored checksum; the tables only after the record is published; every
\* transition step only after the tables.  An image that fails verification or has a
\* loadable segment below 1 MiB never leaves the verifier, the segment loop or the halt
\* loop, and no record, table, control register, MSR or jump is touched for it.
C11_PipelineOrder ==
    variant = "loader" =>
        /\ bootinfo # NoBootInfo =>
              /\ verify_ret = "pass" /\ i = Len(phdr)
              /\ pc \notin {"L_start", "L_segments", "L_returned", "L_hang"}
              /\ bootinfo.kernel_crc32 = kernel_crc32_value
        /\ "tables" \in StepsDone => (bootinfo # NoBootInfo /\ bootinfo_slot # Zero64)
        /\ StepsDone \cap TransitionSteps # {} => "tables" \in StepsDone
        /\ (~validate_elf_header(ehdr) \/ HasLowSegment(phdr)) =>
              /\ pc \in {"L_start", "L_segments", "L_hang"}
              /\ bootinfo = NoBootInfo /\ bootinfo_slot = Zero64
              /\ pt = PtZero /\ steps = <<>> /\ HwUntouched
              /\ pc = "L_hang" =>
                     console[Len(console)] = "[LOADER] ERROR: Failed to load kernel"
\* a header that passes, one segment loaded, then a segment below 1 MiB refused
C11_Witness ==
    /\ variant = "loader" /\ validate_elf_header(ehdr) /\ HasLowSegment(phdr)
    /\ pc = "L_hang" /\ wrote # {}

\* C12: in every variant a fatal condition ends with a diagnostic line printed, interrupts
\* disabled and the processor halted for good; the loader never returns to the firmware.
\* L_hang is the while (1) of loader.c, B_halted the state after cli; hlt of the BIOS
\* loader, U_returned the return of efi_main with an error status.
C12_FatalHaltsForever ==
    /\ pc # "U_returned"
    /\ pc \in {"L_hang", "B_halted"} => (console # <<>> /\ ~hw.if_flag /\ hw.halted)

\* the hardware-state steps executed so far, the PIC masking apart
RECURSIVE HwStepsFrom(_)
HwStepsFrom(st) ==
    IF st.k > Len(steps) THEN st.out
    ELSE HwStepsFrom([out |-> IF steps[st.k] = "pic" THEN st.out
                              ELSE Append(st.out, steps[st.k]),
                      k |-> st.k + 1])
HwSteps == HwStepsFrom([out |-> <<>>, k |-> 1])
IsPrefix(p, q) == Len(p) <= Len(q) /\ \A k \in 1..Len(p) : p[k] = q[k]
\* the order of section 4.7 of the specification
ListedOrder == <<"lgdt", "segs", "tables", "pae", "cr3", "efer", "pg", "ljmp">>
\* the order of loader_main and enable_long_mode_and_jump
CodeOrder == <<"tables", "lgdt", "segs", "pae", "cr3", "efer", "pg", "ljmp">>
\* the tables one run over cleared arrays leaves
SingleRun == setup_identity_paging(PtZero)
\* each register holds what its step wrote exactly when that step has run
StepsKept ==
    /\ (hw.gdtr = gdtp) <=> ("lgdt" \in StepsDone)
    /\ (hw.ds = DATA_SELECTOR /\ hw.es = DATA_SELECTOR /\ hw.ss = DATA_SELECTOR)
           <=> ("segs" \in StepsDone)
    /\ (pt = SingleRun) <=> ("tables" \in StepsDone)
    /\ (5 \in hw.cr4) <=> ("pae" \in StepsDone)
    /\ (hw.cr3 = LoaderLink.pml4) <=> ("cr3" \in StepsDone)
    /\ ({8, 11} \subseteq hw.efer) <=> ("efer" \in StepsDone)
    /\ (31 \in hw.cr0) <=> ("pg" \in StepsDone)
    /\ (hw.cs = far_ptr.selector /\ hw.rip = far_ptr.offset) <=> ("ljmp" \in StepsDone)
    /\ 0 \in hw.cr0

\* C13 as stated: the steps run once each in the listed order, the GDT load and the
\* data-segment reload first and the page tables after them
C13_ListedOrder ==
    variant = "loader" =>
        /\ IsPrefix(HwSteps, ListedOrder)
        /\ pc = "L_stub" => HwSteps = ListedOrder
        /\ StepsKept
\* C13 amended: the steps run once each, none skipped, repeated or undone, in the order
\* page tables, GDT load, data-segment reload, PAE, page-table root, long mode enable,
\* paging enable, far jump
C13_CodeOrder ==
    variant = "loader" =>
        /\ IsPrefix(HwSteps, CodeOrder)
        /\ pc = "L_stub" => HwSteps = CodeOrder
        /\ StepsKept
C13_Witness == variant = "loader" /\ pc = "L_stub" /\ Len(HwSteps) = Len(CodeOrder)

\* the tables section 4.6 asks for: entry 0 of pml4 and pdpt present and writable and
\* pointing at the next table, every other entry 0, pd[k] the 2 MiB page at k * 2 MiB
\* with present, writable and huge set
TablesFinished ==
    /\ pt.pml4[0] = NatBits(LoaderLink.pdpt) \cup {0, 1}
    /\ pt.pdpt[0] = NatBits(LoaderLink.pd) \cup {0, 1}
    /\ \A k \in PtIndex \ {0} : pt.pml4[k] = {} /\ pt.pdpt[k] = {}
    /\ \A k \in PtIndex : pt.pd[k] = {b + 21 : b \in NatBits(k)} \cup {0, 1, 7}
\* a control register or MSR write
ControlWrites == {"pae", "cr3", "efer", "pg"}

\* C14: the GDT is loaded before a data-segment register is reloaded; the tables are
\* finished and CR4.PAE is set before CR3 is written; EFER.LME and NXE are set before
\* CR0.PG; the CR0.PG write is the last control-register write before the far jump;
\* paging is never on with LME or PAE clear or with CR3 off the finished tables.
C14_Precedence ==
    variant = "loader" =>
        /\ (hw.ds # 0 \/ hw.es # 0 \/ hw.ss # 0) => hw.gdtr = gdtp
        /\ hw.cr3 # 0 => (TablesFinished /\ 5 \in hw.cr4)
        /\ 31 \in hw.cr0 =>
              /\ {8, 11} \subseteq hw.efer /\ 5 \in hw.cr4
              /\ hw.cr3 = LoaderLink.pml4 /\ TablesFinished
        /\ \A k \in 1..Len(steps) :
              steps[k] = "pg" => \A l \in (k + 1)..Len(steps) : steps[l] \notin ControlWrites
        /\ hw.rip = far_ptr.offset =>
              (31 \in hw.cr0 /\ steps[Len(steps) - 1] = "pg")
\* paging has just been enabled and the far jump is next
C14_Witness == variant = "loader" /\ pc = "L_ljmp" /\ 31 \in hw.cr0

\* the table found at a physical address: one of the three arrays, or no table
IsTable(addr) == addr \in {LoaderLink.pml4, LoaderLink.pdpt, LoaderLink.pd}
Table(addr) ==
    IF addr = LoaderLink.pml4 THEN pt.pml4
    ELSE IF addr = LoaderLink.pdpt THEN pt.pdpt ELSE pt.pd
\* bits 12..51 of an entry as an address; -1 when it lies at or above 2^31
EntryAddr(e) ==
    IF \E b \in e : b >= 31 /\ b <= 51 THEN -1
    ELSE BitsValue({b \in e : b >= 12 /\ b <= 30})
\* the 4-level walk from CR3 for the address with pml4 index i4, pdpt index i3 and pd
\* index i2: the physical base of its 2 MiB page, -1 when the walk faults
PageBaseFrom(root, i4, i3, i2) ==
    IF ~IsTable(root) THEN -1
    ELSE LET e4 == Table(root)[i4] IN
    IF 0 \notin e4 \/ ~IsTable(EntryAddr(e4)) THEN -1
    ELSE LET e3 == Table(EntryAddr(e4))[i3] IN
    IF 0 \notin e3 \/ 7 \in e3 \/ ~IsTable(EntryAddr(e3)) THEN -1
    ELSE LET e2 == Table(EntryAddr(e3))[i2] IN
    IF 0 \notin e2 \/ 7 \notin e2 THEN -1
    ELSE EntryAddr({b \in e2 : b >= 21})
PageBase(i4, i3, i2) == PageBaseFrom(hw.cr3, i4, i3, i2)
\* the descriptor a selector names in the table GDTR points at
Descriptor(sel) == gdt[(sel \div 8) + 1]

\* C15: the far jump goes through selector 0x08, whose descriptor lies inside the loaded
\* GDT's limit and is a present code segment with L set and D clear, to 0xF000, an
\* address the installed tables map to itself.
C15_FarJumpTarget ==
    (variant = "loader" /\ pc = "L_stub") =>
        /\ hw.cs = 8 /\ hw.rip = 61440
        /\ hw.gdtr.base = LoaderLink.gdt /\ hw.cs + 7 <= hw.gdtr.limit
        /\ {7, 4, 3} \subseteq ByteBits(Descriptor(hw.cs).access)
        /\ 5 \in ByteBits(Descriptor(hw.cs).gran)
        /\ 6 \notin ByteBits(Descriptor(hw.cs).gran)
        /\ 31 \in hw.cr0
        /\ PageBase(0, 0, hw.rip \div 2097152) + (hw.rip % 2097152) = hw.rip
C15_Witness == variant = "loader" /\ pc = "L_stub" /\ hw.rip = ENTRY64_LINEAR

\* the positions of loader.c after the entry slot, and after the record slot, is written
AfterEntrySlot ==
    {"L_bootinfo", "L_publish", "L_kernel_loaded", "L_entry_check", "L_paging", "L_lgdt",
     "L_segs", "L_stack", "L_pae", "L_cr3", "L_efer", "L_pg", "L_ljmp", "L_stub"}
AfterRecordSlot == AfterEntrySlot \ {"L_bootinfo", "L_publish"}

\* C16: at the far jump KERNEL_ENTRY_SLOT holds the entry address of the verified image
\* and BOOTINFO_PTR_SLOT the address of a fully written record; a slot is written
\* before it is read (the entry slot is read at L_entry_check), the record's address is
\* in its slot only when every field is written, and once written a slot keeps its
\* value: the segment loader, the only writer of other memory, has finished by then.
C16_HandoffSlots ==
    variant = "loader" =>
        /\ pc \in AfterEntrySlot =>
              /\ entry_slot = ehdr.e_entry /\ validate_elf_header(ehdr)
              /\ i = Len(phdr)
        /\ pc \notin AfterEntrySlot => (entry_slot = Zero64 /\ bootinfo_slot = Zero64)
        /\ bootinfo_slot # Zero64 => bootinfo = build_bootinfo_loader
        /\ pc \in AfterRecordSlot => bootinfo_slot = FromNat(LoaderLink.bootinfo)
        /\ pc \notin AfterRecordSlot => bootinfo_slot = Zero64

\* C17: where the loader calls the kernel (BIOS and UEFI), the entry is called with the
\* magic constant and the address of the record built for this boot; when the call
\* returns, the loader disables interrupts, halts and does nothing else.
C17_Dispatch ==
    /\ kcall # <<>> =>
          /\ kcall.target = entry /\ kcall.arg1 = GBSD_MAGIC /\ kcall.arg2 = "bi"
          /\ "magic" \in DOMAIN bootinfo /\ bootinfo.magic = GBSD_MAGIC
    /\ (kcall # <<>> /\ pc \in {"B_halted", "U_hlt_loop"}) => (~hw.if_flag /\ hw.halted)
    /\ kcall # <<>> => pc \in {"B_in_kernel", "B_halt", "B_halted", "U_in_kernel", "U_hlt_loop"}

PicMasked == hw.port[33] = 255 /\ hw.port[161] = 255
\* C18: in loader.c both PIC mask registers hold 0xFF before the page tables are built
\* and before the first step of the transition; from then to the jump no step writes a
\* mask register again or sets the interrupt flag.
C18_InterruptsMasked ==
    [][variant = "loader" =>
          /\ (StepsDone' \cap (TransitionSteps \cup {"tables"}) # {}) =>
                 (PicMasked' /\ steps'[1] = "pic")
          /\ PicMasked => PicMasked'
          /\ hw'.if_flag => hw.if_flag]_vars
C18_Witness == variant = "loader" /\ pc = "L_stub" /\ PicMasked

\* C19: after setup_identity_paging, whatever the tables held before, pml4[0] and
\* pdpt[0] are present and writable and point at pdpt and pd, every other pml4 and pdpt
\* entry is 0, pd[k] is k * 2 MiB with present, writable and huge set, and bit 63 is
\* clear everywhere; so every page of [0, 1 GiB) translates to itself and a walk for an
\* address at or above 1 GiB faults.
C19_IdentityTables ==
    pc \in {"P_once", "P_twice"} =>
        /\ TablesFinished
        /\ \A k \in PtIndex : 63 \notin (pt.pml4[k] \cup pt.pdpt[k] \cup pt.pd[k])
        /\ \A k \in PtIndex : PageBaseFrom(LoaderLink.pml4, 0, 0, k) = k * 2097152
        /\ \A k \in PtIndex \ {0} : \A l \in {0, PT_ENTRIES - 1} :
              /\ PageBaseFrom(LoaderLink.pml4, 0, k, l) = -1
              /\ PageBaseFrom(LoaderLink.pml4, k, 0, l) = -1
              /\ PageBaseFrom(LoaderLink.pml4, k, l, l) = -1
\* one run has finished
C19_Witness == pc = "P_once" /\ Len(steps) = 1 /\ pt.pd[1] = {0, 1, 7, 21}

\* C20: a run of setup_identity_paging over any prior contents, garbage or the result of
\* an earlier run, leaves the tables exactly as one run over cleared tables leaves them,
\* and the second run changes nothing the first wrote.
C20_Idempotent ==
    [][/\ pc' \in {"P_once", "P_twice"} => pt' = SingleRun
       /\ (pc = "P_once" /\ pc' = "P_twice") => pt' = pt]_vars
C20_Witness == pc = "P_twice" /\ Len(steps) = 2 /\ TablesFinished

\* ------------------------------------------------------------------------
\* The boot record
\* ------------------------------------------------------------------------
\* the width of every field of the record, in declaration order:
\* BootInfo of loader.c (with pad0, pad1, pad2), struct BootInfo of
\* guaboot2_complete.c (4-byte pointers) and of efi/guaboot_complete.c (8-byte pointers)
LoaderBootInfoFields == <<4, 4, 4, 4, 8, 8, 8, 8, 4, 4, 8, 4, 4, 8, 8, 4, 4>>
BiosBootInfoFields == <<4, 4, 4, 4, 8, 8, 4, 4, 4, 4, 4, 4>>
EfiBootInfoFields == <<4, 4, 4, 4, 8, 8, 4, 8, 4, 8, 8, 4>>
BootInfoFields ==
    [loader |-> LoaderBootInfoFields, bios |-> BiosBootInfoFields, uefi |-> EfiBootInfoFields]
\* the largest alignment a field gets: 1 in a packed record, 4 or 8 on a 32-bit target
FieldAlign == [loader |-> {4, 8}, bios |-> {4, 8}, uefi |-> {1}]
Min2(a, b) == IF a < b THEN a ELSE b
RoundUp(n, a) == ((n + a - 1) \div a) * a
\* the record laid out field after field: every field at the next multiple of its
\* alignment, the whole rounded up to the largest alignment of a field
RECURSIVE LayOut(_, _, _)
LayOut(st, fields, cap) ==
    IF st.k > Len(fields) THEN RoundUp(st.off, st.align)
    ELSE LET a == Min2(fields[st.k], cap)
         IN LayOut([k |-> st.k + 1, off |-> RoundUp(st.off, a) + fields[st.k],
                    align |-> IF a > st.align THEN a ELSE st.align], fields, cap)
RecordBytes(v, cap) == LayOut([k |-> 1, off |-> 0, align |-> 1], BootInfoFields[v], cap)

C22_Version == "version" \in DOMAIN bootinfo => bootinfo.version = 65536

\* the four bytes a 32-bit store leaves in memory on the little-endian target,
\* lowest address first
LeBytes32(n) == <<n % 256, (n \div 256) % 256, (n \div 65536) % 256, (n \div 16777216) % 256>>
\* ASCII 'G', 'B', 'S', 'D'
AsciiGBSD == <<71, 66, 83, 68>>

\* C23: the first four bytes of the boot record in memory read "GBSD": the magic
\* field is the little-endian integer of the ASCII bytes 'G','B','S','D'
C23_MagicBytes == "magic" \in DOMAIN bootinfo => LeBytes32(bootinfo.magic) = AsciiGBSD

\* the place of a field in the dependency order of the builder: constants,
\* integrity and location, memory totals and map, device/command line/modules;
\* the pad fields of loader.c have no place in it
FieldStage ==
    [magic |-> 1, version |-> 1, size |-> 1,
     kernel_crc32 |-> 2, kernel_base |-> 2, kernel_size |-> 2,
     mem_lower |-> 3, mem_upper |-> 3, mmap |-> 3, mmap_count |-> 3,
     boot_device |-> 4, cmdline |-> 4, mods_count |-> 4, mods |-> 4]
Staged(k) == bi_writes[k] \in DOMAIN FieldStage
WrittenOnce == \A a, b \in DOMAIN bi_writes : a # b => bi_writes[a] # bi_writes[b]
InStageOrder ==
    \A a, b \in DOMAIN bi_writes :
        (a < b /\ Staged(a) /\ Staged(b)) => FieldStage[bi_writes[a]] <= FieldStage[bi_writes[b]]
ChecksumAfterLoad ==
    (\E k \in DOMAIN bi_writes : bi_writes[k] = "kernel_crc32") =>
        bootinfo.kernel_crc32 = kernel_crc32_value

\* C24: in every variant each field of the boot record is stored once per boot, in
\* the order constants, integrity and location, memory totals and map, device /
\* command line / modules; the checksum is stored after it was computed over the
\* loaded segments
C24_WriteOrder == WrittenOnce /\ InStageOrder /\ ChecksumAfterLoad

\* ------------------------------------------------------------------------
\* The memory-map translators
\* ------------------------------------------------------------------------
\* a firmware descriptor as the firmware means it: where the range starts, how many
\* bytes it has, and whether its type is the firmware's code for available memory
FwBase(d) == IF variant = "bios" THEN d.base ELSE d.PhysicalStart
FwBytes(d) == IF variant = "bios" THEN d.length ELSE d.NumberOfPages * 4096
FwAvailable(d) == IF variant = "bios" THEN d.type = 1 ELSE d.Type = 7
\* the translator ran on the map the firmware returned
Translated == pc = "M_done" /\ (variant = "bios" => e820_count = Len(fw_map))

\* C25: the normalized map has one entry for every firmware entry, in the same
\* order, with that entry's base and byte length, and of kind usable (1) exactly
\* when the firmware type is the available code (E820 type 1, UEFI conventional)
C25_Translation ==
    Translated =>
        /\ bootinfo.mmap_count = Len(fw_map)
        /\ DOMAIN bootinfo.mmap = DOMAIN fw_map
        /\ \A k \in DOMAIN fw_map :
              /\ bootinfo.mmap[k].base = FwBase(fw_map[k])
              /\ bootinfo.mmap[k].length = FwBytes(fw_map[k])
              /\ (bootinfo.mmap[k].typ = 1) <=> FwAvailable(fw_map[k])
C25_Witness ==
    /\ Translated /\ Len(fw_map) = MaxMapLen
    /\ \E a, b \in DOMAIN fw_map :
          /\ a < b /\ FwAvailable(fw_map[a]) /\ ~FwAvailable(fw_map[b])
          /\ bootinfo.mmap[a].typ = 1 /\ bootinfo.mmap[b].typ # 1
          /\ FwBase(fw_map[a]) # FwBase(fw_map[b])

\* the available bytes of the firmware map on one side of the 1 MiB line
RECURSIVE AvailableBytes(_, _, _)
AvailableBytes(map, k, low) ==
    IF k > Len(map) THEN 0
    ELSE (IF FwAvailable(map[k]) /\ ((FwBase(map[k]) < 1048576) = low)
          THEN FwBytes(map[k]) ELSE 0) + AvailableBytes(map, k + 1, low)
\* the translator took its totals from a map with at least one entry
Aggregated == Translated /\ Len(fw_map) > 0

\* C26: in both translators mem_lower is the sum of the available bytes below 1 MiB
\* divided by 1024, mem_upper the same for the bytes at or above 1 MiB; entries of
\* any other type add nothing
C26_Aggregation ==
    Aggregated =>
        /\ bootinfo.mem_lower = AvailableBytes(fw_map, 1, TRUE) \div 1024
        /\ bootinfo.mem_upper = AvailableBytes(fw_map, 1, FALSE) \div 1024

\* the map (0, 0x100000, reserved), (0x100000, 0x7F00000, usable)
SyntheticMap ==
    << [base |-> 0, length |-> 1048576, typ |-> 2, reserved |-> 0],
       [base |-> 1048576, length |-> 133169152, typ |-> 1, reserved |-> 0] >>
HasSyntheticMap ==
    /\ {"mmap", "mem_lower", "mem_upper"} \subseteq DOMAIN bootinfo
    /\ bootinfo.mmap = SyntheticMap

\* C27: a record whose map is (0, 0x100000, reserved), (0x100000, 0x7F00000, usable)
\* reports mem_lower = 0 KiB and mem_upper = 129024 KiB
C27_SyntheticTotals ==
    HasSyntheticMap => (bootinfo.mem_lower = 0 /\ bootinfo.mem_upper = 129024)

FallbackWarning == "WARNING: Using fallback memory detection"
Flagged == \E k \in DOMAIN console : console[k] = FallbackWarning

\* C28: when the firmware returns no E820 entry (count <= 0) detect_memory gives the
\* record mem_lower = 640 KiB, mem_upper = 31 * 1024 KiB, a null map pointer and
\* map count 0, and prints a warning; when it returns at least one entry nothing
\* of the fallback is used and the map pointer and count describe those entries
C28_Fallback ==
    (pc = "M_done" /\ variant = "bios") =>
        IF e820_count <= 0
        THEN /\ bootinfo.mem_lower = 640 /\ bootinfo.mem_upper = 31 * 1024
             /\ bootinfo.mmap_ptr = "NULL" /\ bootinfo.mmap_count = 0
             /\ Flagged
        ELSE /\ bootinfo.mmap_ptr = "e820_map" /\ bootinfo.mmap_count = e820_count
             /\ Len(bootinfo.mmap) = e820_count
             /\ \A k \in 1..e820_count :
                   /\ bootinfo.mmap[k].base = fw_map[k].base
                   /\ bootinfo.mmap[k].length = fw_map[k].length
             /\ ~Flagged
C28_Witness ==
    /\ pc = "M_done" /\ variant = "bios" /\ e820_count < 0 /\ Len(fw_map) = MaxMapLen
    /\ bootinfo.mmap_ptr = "NULL" /\ bootinfo.mem_upper = 31744 /\ Flagged

\* ------------------------------------------------------------------------
\* Firmware calls of the UEFI loader
\* ------------------------------------------------------------------------
ExitCalls == {k \in DOMAIN fw_calls : fw_calls[k].call = "ExitBootServices"}
CallFailed(k) == fw_calls[k].status # "EFI_SUCCESS"
\* the signals that say "try again": a map that did not fit its buffer, and an
\* exit refused because the map key is stale
Transient(k) ==
    \/ fw_calls[k].call = "GetMemoryMap" /\ fw_calls[k].status = "EFI_BUFFER_TOO_SMALL"
    \/ fw_calls[k].call = "ExitBootServices" /\ fw_calls[k].status = "EFI_INVALID_PARAMETER"
\* a second ExitBootServices answers a stale-key refusal of the first, with a
\* successful GetMemoryMap between the two
RetryOnTransient ==
    \A j, k \in ExitCalls :
        j < k => /\ Transient(j)
                 /\ \E g \in (j + 1)..(k - 1) :
                       fw_calls[g].call = "GetMemoryMap" /\ ~CallFailed(g)
RetryOnce == Cardinality(ExitCalls) <= 2
KernelEntered == pc \in {"U_dispatch", "U_in_kernel", "U_hlt_loop"}
\* the kernel is entered only when the last exit succeeded and nothing failed
\* on the way but for a transient signal
OtherFailuresFatal ==
    KernelEntered =>
        /\ \A k \in DOMAIN fw_calls : CallFailed(k) => Transient(k)
        /\ \E k \in ExitCalls : ~CallFailed(k) /\ \A j \in ExitCalls : j <= k

\* C29: the UEFI loader retries only after the transient signal, by fetching a
\* fresh map and repeating the one call that was refused, once per boot; any other
\* firmware failure, a failed re-fetch or a second refusal ends the boot before
\* the kernel is entered
C29_RetryPolicy == RetryOnTransient /\ RetryOnce /\ OtherFailuresFatal

\* ------------------------------------------------------------------------
\* Low memory
\* ------------------------------------------------------------------------
\* C30: for every image, also one with p_paddr at or above 2^32 or with a segment
\* whose end wraps, the segment loader of loader.c writes no byte below 0x100000
C30_NoLowWrite == variant = "loader" => \A a \in wrote : ~Lt64(a, LOW_LIMIT)

\* ------------------------------------------------------------------------
\* The recorded image range
\* ------------------------------------------------------------------------
\* address a lies in [kernel_base, kernel_base + kernel_size) of the record
InRecordedRange(a) ==
    /\ ~Lt64(a, bootinfo.kernel_base)
    /\ Lt64(Sub64(a, bootinfo.kernel_base), bootinfo.kernel_size)

\* C31: after a successful load of any accepted image every address the segment
\* loader wrote lies in the range [kernel_base, kernel_base + kernel_size) of the
\* boot record, so that the checksum covers every written byte
C31_RangeCoversWrites ==
    (variant = "loader" /\ pc = "L_kernel_loaded") => \A a \in wrote : InRecordedRange(a)

\* ------------------------------------------------------------------------
\* The image between checksum and handoff
\* ------------------------------------------------------------------------
\* the memory the loader writes between the checksum and the handoff; the pool
\* blocks of the UEFI loader are placed by the firmware and are not among them
HandoffRegions ==
    IF variant = "bios" THEN {BiosRecordRegion}
    ELSE IF variant = "loader" THEN LoaderHandoffRegions ELSE {}
InRegion(a, r) == ~Lt64(a, FromNat(r.lo)) /\ Lt64(a, FromNat(r.lo + r.n))

\* C32: from the checksum to the handoff no write of the loader (record, slots,
\* page tables) falls on a byte of the loaded image; the BIOS record at
\* BOOT_INFO_ADDR never overlaps a loaded segment
C32_ImageStable ==
    "magic" \in DOMAIN bootinfo => \A a \in wrote, r \in HandoffRegions : ~InRegion(a, r)

\* ------------------------------------------------------------------------
\* Self-consistency of the record
\* ------------------------------------------------------------------------
\* the usable bytes of the record's own map on one side of the 1 MiB line
RECURSIVE RecordUsable(_, _, _)
RecordUsable(map, k, low) ==
    IF k > Len(map) THEN 0
    ELSE (IF map[k].typ = 1 /\ ((map[k].base < 1048576) = low) THEN map[k].length ELSE 0)
         + RecordUsable(map, k + 1, low)
HandedOver == pc \in {"L_stub", "B_in_kernel", "U_in_kernel"}

\* C33: in every record handed to the kernel with a non-empty map, mem_lower and
\* mem_upper are the usable bytes, in KiB, below and at or above 1 MiB of exactly
\* the entries the record's map pointer and count describe
C33_SelfConsistent ==
    (HandedOver /\ bootinfo.mmap_count > 0) =>
        /\ bootinfo.mmap_count = Len(bootinfo.mmap)
        /\ bootinfo.mem_lower = RecordUsable(bootinfo.mmap, 1, TRUE) \div 1024
        /\ bootinfo.mem_upper = RecordUsable(bootinfo.mmap, 1, FALSE) \div 1024

\* ------------------------------------------------------------------------
\* The entry point
\* ------------------------------------------------------------------------
HeaderVerified ==
    IF variant = "loader" THEN validate_elf_header(ehdr) ELSE verify_elf_bios(ehdr)
ReadFailed == \E k \in DOMAIN console : console[k] = "ERROR: Failed to read kernel"
\* the boot ended before the kernel was dispatched to, the image having been read
LoadFailed ==
    \/ pc = "L_hang"
    \/ pc \in {"B_halt", "B_halted"} /\ kcall = <<>> /\ ~ReadFailed

\* C34: for every verified image with all loadable segments at or above 1 MiB and
\* every 64-bit e_entry, 0 and values from 2^32 on included, the load succeeds and
\* the address stored in KERNEL_ENTRY_SLOT and dispatched to is e_entry
C34_EntryFidelity ==
    (variant \in {"loader", "bios"} /\ HeaderVerified /\ ~HasLowSegment(phdr)) =>
        /\ ~LoadFailed
        /\ (variant = "loader" /\ pc \in AfterEntrySlot) => entry_slot = ehdr.e_entry
        /\ kcall # <<>> => kcall.target = ehdr.e_entry

\* ------------------------------------------------------------------------
\* Leaving the boot services
\* ------------------------------------------------------------------------
\* ExitBootServices call k succeeded right after a successful GetMemoryMap
FreshKey(k) ==
    k > 1 /\ fw_calls[k - 1].call = "GetMemoryMap" /\ ~CallFailed(k - 1)
ExitedBeforeKernel ==
    (variant = "uefi" /\ KernelEntered) => \E k \in ExitCalls : ~CallFailed(k)
ExitWithFreshKey == \A k \in ExitCalls : ~CallFailed(k) => FreshKey(k)
NothingAfterExit == \A k \in ExitCalls : ~CallFailed(k) => k = Len(fw_calls)

\* C35: the UEFI loader calls the kernel only after ExitBootServices succeeded; the
\* successful call comes directly after the GetMemoryMap whose key it uses, with no
\* allocation or other boot-service call between them, and no firmware service is
\* called once it has succeeded
C35_ExitProtocol == ExitedBeforeKernel /\ ExitWithFreshKey /\ NothingAfterExit

=============================================================================
